---- MODULE Spec2Model ----
(***************************************************************************)
(* A model of the support-agent summary-email service:                     *)
(*   - the scheduled AI report run (cron callback of startServer) driving  *)
(*     OpenAIAnalysisService.analyzeSessions                (Spec, FairSpec)*)
(*   - OpenAIAnalysisService.analyzeSession and its five sub-calls         *)
(*                                                          (SessionSpec)  *)
(*   - FirestoreService.fetchEnrichedSessions / fetchLogs   (FetchSpec)    *)
(*   - OpenAIAnalysisService.aggregateAnalyses              (AggSpec)      *)
(* Each specification leaves the variables of the other parts at their     *)
(* initial value.                                                          *)
(***************************************************************************)
EXTENDS Integers, Sequences, FiniteSets, TLC

VARIABLES
  \* ---- scheduled run: cron callback and analyzeSessions ----
  cronPc,          \* position of the cron callback
  runOutcome,      \* how the cron callback ended
  openaiAvailable, \* openaiAnalysisService was constructed
  smtpConfigured,  \* process.env.SMTP_USER && process.env.EMAIL_TO
  sessions,        \* the list fetchSessionsByTimeRange returned (session ids)
  asPc,            \* position of analyzeSessions
  batchIdx,        \* loop variable i of analyzeSessions
  analyses,        \* the local list `analyses` of analyzeSessions
  sessState,       \* per session: state of its analyzeSession promise
  pendingCalls,    \* per session: completion-service calls still in flight
  timersFired,     \* number of inter-batch setTimeout callbacks that have run
  aggregated,      \* the value aggregateAnalyses returned to the cron callback
  emailRequested,  \* sendAIAnalysisEmail has been called in this run
  \* ---- one analyzeSession call with its five named sub-calls ----
  sessPc,          \* position of the analyzeSession call
  subResp,         \* per sub-call: "idle", "pending" or the response it got
  sessResult,      \* what analyzeSession returned (<<>> when nothing)
  \* ---- fetchLogs / fetchEnrichedSessions against the document store ----
  storeSessions,   \* the session documents of the store, with their messages
  fetchPc,         \* position of fetchEnrichedSessions
  fetchIdx,        \* how many sessions the for-of loop has enriched
  enriched,        \* the local list enrichedSessions
  failedMsgFetches,\* ids whose messages query failed (the console.error log)
  logsPc,          \* position of fetchLogs
  logs,            \* what fetchLogs returned
  \* ---- aggregateAnalyses on a list of analyses ----
  aggInput,        \* the analyses as analyzeSession returned them (values)
  aggSessions,     \* the sessions argument of aggregateAnalyses
  aggAnalyses,     \* the analyses argument: objects referring into the heap
  heapObjs,        \* heap: improvement-suggestion objects
  heapArrs,        \* heap: string arrays (examples, misunderstandings)
  aggResults,      \* outcome of each aggregateAnalyses call so far
  \* ---- analyzeLogsAggregation and generateInsights on a list of logs ----
  chatLogs,        \* the logs argument of analyzeLogsAggregation
  analyticsPc,     \* position of the analysis of the logs
  analytics,       \* the Analytics analyzeLogsAggregation returned (<<>> before)
  previousAnalytics, \* the previousAnalytics argument: <<>> or <<Analytics>>
  insights         \* the Insights generateInsights returned (<<>> before)

runVars == <<cronPc, runOutcome, openaiAvailable, smtpConfigured, sessions, asPc,
             batchIdx, analyses, sessState, pendingCalls, timersFired,
             aggregated, emailRequested>>
sessVars == <<sessPc, subResp, sessResult>>
fetchVars == <<storeSessions, fetchPc, fetchIdx, enriched, failedMsgFetches, logsPc, logs>>
aggVars == <<aggInput, aggSessions, aggAnalyses, heapObjs, heapArrs, aggResults>>
logVars == <<chatLogs, analyticsPc, analytics, previousAnalytics, insights>>
vars == <<runVars, sessVars, fetchVars, aggVars, logVars>>

----------------------------------------------------------------------------
\* Bounds of the model.
MaxSessions == 4        \* most sessions a fetch returns
MaxStoreSessions == 2   \* most session documents in the store
MaxAnalyses == 2        \* most analyses handed to aggregateAnalyses
MaxAggCalls == 2        \* most aggregateAnalyses calls on the same analyses
ManyAnalyses == 12      \* length of the long lists handed to aggregateAnalyses
MaxLogs == 3            \* most logs in a list drawn from the log shapes
ManyLogs == 32          \* length of the long log lists

\* Program constants.
batchSizeOversized == 3 + 1
batchSize == 3          \* const batchSize = 3
NumSubCalls == 5        \* the five members of Promise.all in analyzeSession

SessionIds == 1..MaxSessions

Min(a, b) == IF a < b THEN a ELSE b

\* sessions.slice(i, i + batchSize): the positions of the batch starting at i
\* (0-based i, 1-based positions).
BatchOf(i, n) == (i + 1)..Min(i + batchSize, n)

\* Index (0-based) of the batch a session position belongs to.
BatchNo(p) == (p - 1) \div batchSize

----------------------------------------------------------------------------
\* analyzeSessions and analyzeSession, as seen from the batch loop.

RunIdle ==
  /\ sessions = <<>>
  /\ asPc = "notCalled"
  /\ batchIdx = 0
  /\ analyses = <<>>
  /\ sessState = [s \in SessionIds |-> "idle"]
  /\ pendingCalls = [s \in SessionIds |-> 0]
  /\ timersFired = 0
  /\ aggregated = <<>>
  /\ emailRequested = FALSE

\* batch.map(session => this.analyzeSession(session)): every session of the
\* batch synchronously issues its five completion calls.
StartBatch(st, pc, i, n) ==
  [state |-> [s \in SessionIds |-> IF s \in BatchOf(i, n) THEN "running" ELSE st[s]],
   calls |-> [s \in SessionIds |-> IF s \in BatchOf(i, n) THEN NumSubCalls ELSE pc[s]]]

\* if (i + batchSize < sessions.length) await new Promise(setTimeout 1000)
NeedsPause(i, n) == i + batchSize < n

\* The ids of the analyses Promise.all yields for a batch: input order.  The
\* variant yields them last first.
BatchAnalysesLastFirst(i, n) ==
  [k \in 1..(Min(i + batchSize, n) - i) |-> sessions[Min(i + batchSize, n) + 1 - k]]
BatchAnalyses(i, n) == [k \in 1..(Min(i + batchSize, n) - i) |-> sessions[i + k]]

\* What the rejection of one analyzeSession promise does to analyzeSessions
\* while it awaits the batch: Promise.all rejects, the await throws, nothing
\* catches it inside analyzeSessions.
SwallowSessionReject(pc) == pc
AfterSessionReject(pc) == IF pc = "awaitBatch" THEN "rejected" ELSE pc

\* The cron callback after `await analyzeSessions(sessions)` resolved:
\* aggregateAnalyses (which may throw, see AggSpec), formatAnalysisReport and,
\* when SMTP is configured, sendAIAnalysisEmail.
CronContinue(list, throws) ==
  IF throws
    THEN /\ cronPc' = "done" /\ runOutcome' = "failed"
         /\ aggregated' = aggregated /\ emailRequested' = emailRequested
    ELSE /\ aggregated' = <<list>>
         /\ IF smtpConfigured
              THEN cronPc' = "sending" /\ emailRequested' = TRUE
                   /\ runOutcome' = runOutcome
              ELSE cronPc' = "done" /\ emailRequested' = emailRequested
                   /\ runOutcome' = "emailSkipped"

\* The cron callback's catch block: log only.
CronCatchSendsAnyway ==
  /\ cronPc' = "done" /\ runOutcome' = "failed"
  /\ aggregated' = aggregated /\ emailRequested' = TRUE
CronCatch ==
  /\ cronPc' = "done" /\ runOutcome' = "failed"
  /\ aggregated' = aggregated /\ emailRequested' = emailRequested

\* cron.schedule callback fires.
CronFire ==
  /\ cronPc = "idle"
  /\ IF openaiAvailable
       THEN cronPc' = "fetching" /\ runOutcome' = runOutcome
       ELSE cronPc' = "done" /\ runOutcome' = "noService"
  /\ UNCHANGED <<openaiAvailable, smtpConfigured, sessions, asPc, batchIdx, analyses,
                 sessState, pendingCalls, timersFired, aggregated, emailRequested>>
  /\ UNCHANGED <<sessVars, fetchVars, aggVars, logVars>>

\* fetchSessionsByTimeRange resolves with n sessions; with none the callback
\* returns, otherwise analyzeSessions is called and starts its first batch.
FetchResolves ==
  /\ cronPc = "fetching"
  /\ \E n \in 0..MaxSessions :
       /\ sessions' = [k \in 1..n |-> k]
       /\ IF n = 0
            THEN /\ cronPc' = "done" /\ runOutcome' = "noSessions"
                 /\ UNCHANGED <<asPc, sessState, pendingCalls>>
            ELSE /\ cronPc' = "analyzing" /\ runOutcome' = runOutcome
                 /\ asPc' = "awaitBatch"
                 /\ sessState' = StartBatch(sessState, pendingCalls, 0, n).state
                 /\ pendingCalls' = StartBatch(sessState, pendingCalls, 0, n).calls
  /\ UNCHANGED <<openaiAvailable, smtpConfigured, batchIdx, analyses, timersFired,
                 aggregated, emailRequested>>
  /\ UNCHANGED <<sessVars, fetchVars, aggVars, logVars>>

\* analyzeSessions(sessions) is called on any list of sessions, the empty one
\* included, whose ids ascend or descend, by a caller that goes on as the cron
\* callback does.  With no session the loop body never runs and the empty list
\* is returned; otherwise the first batch is started.
CallAnalyzeSessions ==
  /\ cronPc = "idle"
  /\ asPc = "notCalled"
  /\ \E n \in 0..MaxSessions, descending \in BOOLEAN :
       /\ sessions' = [k \in 1..n |-> IF descending THEN n + 1 - k ELSE k]
       /\ IF n = 0
            THEN /\ asPc' = "resolved"
                 /\ \E throws \in BOOLEAN : CronContinue(<<>>, throws)
                 /\ UNCHANGED <<sessState, pendingCalls>>
            ELSE /\ cronPc' = "analyzing"
                 /\ asPc' = "awaitBatch"
                 /\ sessState' = StartBatch(sessState, pendingCalls, 0, n).state
                 /\ pendingCalls' = StartBatch(sessState, pendingCalls, 0, n).calls
                 /\ UNCHANGED <<runOutcome, aggregated, emailRequested>>
  /\ UNCHANGED <<openaiAvailable, smtpConfigured, batchIdx, analyses, timersFired>>
  /\ UNCHANGED <<sessVars, fetchVars, aggVars, logVars>>

\* fetchSessionsByTimeRange rejects: the callback's catch logs it.
FetchRejects ==
  /\ cronPc = "fetching"
  /\ CronCatch
  /\ UNCHANGED <<openaiAvailable, smtpConfigured, sessions, asPc, batchIdx, analyses,
                 sessState, pendingCalls, timersFired>>
  /\ UNCHANGED <<sessVars, fetchVars, aggVars, logVars>>

\* All sessions of the current batch have resolved.
BatchResolvedWholeList(st, i, n) == \A s \in 1..n : st[s] = "resolved"
BatchResolved(st, i, n) == \A s \in BatchOf(i, n) : st[s] = "resolved"

\* One completion call of session s returns a usable response.  When it is the
\* last of the five, analyzeSession resolves; when that completes the batch,
\* analyzeSessions pushes the batch's analyses and either sets the pause timer
\* or returns to the cron callback.
SubCallSucceeds(s) ==
  /\ pendingCalls[s] > 0
  /\ pendingCalls' = [pendingCalls EXCEPT ![s] = @ - 1]
  /\ LET n == Len(sessions)
         st == IF sessState[s] = "running" /\ pendingCalls[s] = 1
                 THEN [sessState EXCEPT ![s] = "resolved"] ELSE sessState
         done == asPc = "awaitBatch" /\ BatchResolved(st, batchIdx, n)
         all == analyses \o BatchAnalyses(batchIdx, n)
     IN /\ sessState' = st
        /\ IF done
             THEN /\ analyses' = all
                  /\ IF NeedsPause(batchIdx, n)
                       THEN /\ asPc' = "pause"
                            /\ UNCHANGED <<cronPc, runOutcome, aggregated, emailRequested>>
                       ELSE /\ asPc' = "resolved"
                            /\ \E throws \in BOOLEAN : CronContinue(all, throws)
             ELSE UNCHANGED <<analyses, asPc, cronPc, runOutcome, aggregated,
                              emailRequested>>
  /\ UNCHANGED <<openaiAvailable, smtpConfigured, sessions, batchIdx, timersFired>>
  /\ UNCHANGED <<sessVars, fetchVars, aggVars, logVars>>

\* One completion call of session s fails (service error or JSON.parse throws).
\* The session's Promise.all rejects at the first failure; analyzeSession logs and
\* rethrows; the batch's Promise.all rejects; analyzeSessions rejects; the cron
\* callback's catch logs it.
SubCallFails(s) ==
  /\ pendingCalls[s] > 0
  /\ pendingCalls' = [pendingCalls EXCEPT ![s] = @ - 1]
  /\ IF sessState[s] = "running"
       THEN /\ sessState' = [sessState EXCEPT ![s] = "rejected"]
            /\ asPc' = AfterSessionReject(asPc)
            /\ IF asPc = "awaitBatch" /\ asPc' = "rejected"
                 THEN CronCatch
                 ELSE UNCHANGED <<cronPc, runOutcome, aggregated, emailRequested>>
       ELSE UNCHANGED <<sessState, asPc, cronPc, runOutcome, aggregated, emailRequested>>
  /\ UNCHANGED <<openaiAvailable, smtpConfigured, sessions, batchIdx, analyses,
                 timersFired>>
  /\ UNCHANGED <<sessVars, fetchVars, aggVars, logVars>>

\* The setTimeout of the inter-batch pause fires: the loop advances by
\* batchSize and starts the next batch.
PauseElapses ==
  /\ asPc = "pause"
  /\ timersFired' = timersFired + 1
  /\ batchIdx' = batchIdx + batchSize
  /\ asPc' = "awaitBatch"
  /\ sessState' = StartBatch(sessState, pendingCalls, batchIdx + batchSize, Len(sessions)).state
  /\ pendingCalls' = StartBatch(sessState, pendingCalls, batchIdx + batchSize, Len(sessions)).calls
  /\ UNCHANGED <<cronPc, runOutcome, openaiAvailable, smtpConfigured, sessions,
                 analyses, aggregated, emailRequested>>
  /\ UNCHANGED <<sessVars, fetchVars, aggVars, logVars>>

\* transporter.sendMail settles: sendAIAnalysisEmail resolves or rethrows.
EmailSettles ==
  /\ cronPc = "sending"
  /\ cronPc' = "done"
  /\ \E ok \in BOOLEAN : runOutcome' = IF ok THEN "sent" ELSE "failed"
  /\ UNCHANGED <<openaiAvailable, smtpConfigured, sessions, asPc, batchIdx, analyses,
                 sessState, pendingCalls, timersFired, aggregated, emailRequested>>
  /\ UNCHANGED <<sessVars, fetchVars, aggVars, logVars>>

----------------------------------------------------------------------------
\* One analyzeSession call with its five named sub-calls.

\* The members of Promise.all in analyzeSession, in order.
SubCalls == <<"analyzeFirstRequest", "analyzeConversationFlow", "analyzeEnding",
              "generateImprovementSuggestions", "identifyProblemTypes">>
SubCallNames == {SubCalls[i] : i \in 1..NumSubCalls}

\* The keys each prompt requests in its JSON format.
FirstRequestKeys == {"intent", "category", "urgency", "sentiment", "clarity",
                     "needsClarification"}
FlowKeys == {"topicChanges", "userSatisfactionTrend", "keyTopics",
             "conversationQuality", "misunderstandings"}
EndingKeys == {"endedBy", "resolution", "finalSentiment", "reasonForEnding",
               "followUpNeeded"}
SuggestionKeys == {"category", "issue", "suggestion", "priority", "examples"}
ProblemKeys == {"type", "description", "severity", "examples"}

\* A JSON object is a function from its keys; scalar values are abstracted to "v".
EmptyObject == <<>>
ObjectWith(keys) == [k \in keys |-> "v"]
Without(obj, key) == [k \in (DOMAIN obj) \ {key} |-> obj[k]]
FullSuggestion == [category |-> "v", issue |-> "v", suggestion |-> "v",
                   priority |-> "v", examples |-> <<"v">>]
FullProblem == [type |-> "v", description |-> "v", severity |-> "v",
                examples |-> <<"v">>]

\* The JSON objects the completion service is taken to answer a sub-call with:
\* one carrying every requested key, one lacking a requested key, and {}.
FullObject(k) ==
  CASE k = "analyzeFirstRequest" -> ObjectWith(FirstRequestKeys)
    [] k = "analyzeConversationFlow" ->
         [topicChanges |-> "v", userSatisfactionTrend |-> "v", keyTopics |-> <<"v">>,
          conversationQuality |-> "v", misunderstandings |-> <<"v">>]
    [] k = "analyzeEnding" -> ObjectWith(EndingKeys)
    [] k = "generateImprovementSuggestions" -> [suggestions |-> <<FullSuggestion>>]
    [] k = "identifyProblemTypes" -> [problems |-> <<FullProblem>>]
PartialObject(k) ==
  CASE k = "analyzeFirstRequest" -> Without(FullObject(k), "intent")
    [] k = "analyzeConversationFlow" -> Without(FullObject(k), "misunderstandings")
    [] k = "analyzeEnding" -> Without(FullObject(k), "reasonForEnding")
    [] k = "generateImprovementSuggestions" ->
         [suggestions |-> <<Without(FullSuggestion, "issue")>>]
    [] k = "identifyProblemTypes" -> [problems |-> <<Without(FullProblem, "type")>>]

\* What a completion call can settle with: the request rejects, or it resolves
\* with message content that is empty (null or ''), text that is not JSON, or
\* the text of a JSON object.
Idle == [kind |-> "idle"]
Pending == [kind |-> "pending"]
ApiError == [kind |-> "apiError"]
EmptyContent == [kind |-> "content", tag |-> "empty"]
NotJson == [kind |-> "content", tag |-> "text"]
JsonText(obj) == [kind |-> "content", tag |-> "object", obj |-> obj]
Responses(k) == {ApiError, EmptyContent, NotJson, JsonText(FullObject(k)),
                 JsonText(PartialObject(k)), JsonText(EmptyObject)}

\* JSON.parse(response.choices[0].message.content || dflt): empty content takes
\* the default text, text that is not JSON makes JSON.parse throw.
ParseContent(r, dflt) ==
  LET c == IF r.tag = "empty" THEN JsonText(dflt) ELSE r
  IN IF c.tag = "object" THEN [ok |-> TRUE, value |-> c.obj]
                         ELSE [ok |-> FALSE, value |-> EmptyObject]

\* Object spread { ...a, ...b }: the keys of b win.
Spread(a, b) == [k \in (DOMAIN a) \cup (DOMAIN b) |-> IF k \in DOMAIN b THEN b[k] ELSE a[k]]

\* result.suggestions || [] , result.problems || []
ListOrEmpty(obj, key) == IF key \in DOMAIN obj THEN obj[key] ELSE <<>>

\* What each sub-call makes of the parsed object.
ShapeResult(k, obj) ==
  CASE k = "analyzeFirstRequest" -> Spread([originalMessage |-> "v"], obj)
    [] k = "analyzeConversationFlow" ->
         Spread([totalMessages |-> "v", userMessages |-> "v", botMessages |-> "v"], obj)
    [] k = "analyzeEnding" -> Spread(obj, [lastUserMessage |-> "v"])
    [] k = "generateImprovementSuggestions" -> ListOrEmpty(obj, "suggestions")
    [] k = "identifyProblemTypes" ->
         LET ps == ListOrEmpty(obj, "problems")
         IN [i \in DOMAIN ps |-> Spread(ps[i], [frequency |-> 1])]

DefaultObject(k) ==
  CASE k = "generateImprovementSuggestions" -> [suggestions |-> <<>>]
    [] k = "identifyProblemTypes" -> [problems |-> <<>>]
    [] OTHER -> EmptyObject

\* The settlement of sub-call k on response r: rejected when the request failed
\* or JSON.parse threw, otherwise fulfilled with the shaped value.
SubCallResult(k, r) ==
  IF r.kind = "apiError"
    THEN [ok |-> FALSE, value |-> EmptyObject]
    ELSE LET parsed == ParseContent(r, DefaultObject(k))
         IN IF parsed.ok
              THEN [ok |-> TRUE, value |-> ShapeResult(k, parsed.value)]
              ELSE [ok |-> FALSE, value |-> EmptyObject]

Settled(r) == r.kind \in {"apiError", "content"}

\* Promise.all over the five sub-calls, given the responses so far and the
\* position before this settlement: it rejects at the first rejection and
\* fulfils when all five are fulfilled.
JoinAllSettled(pc, resp) ==
  IF pc # "awaiting" THEN pc
  ELSE IF \A k \in SubCallNames : Settled(resp[k]) THEN "resolved"
  ELSE "awaiting"
JoinAll(pc, resp) ==
  IF pc # "awaiting" THEN pc
  ELSE IF \E k \in SubCallNames : Settled(resp[k]) /\ ~SubCallResult(k, resp[k]).ok
    THEN "rejected"
  ELSE IF \A k \in SubCallNames : Settled(resp[k]) THEN "resolved"
  ELSE "awaiting"

\* The ConversationAnalysis analyzeSession returns.
BuildAnalysis(resp) ==
  [sessionId |-> "v",
   firstUserRequest |-> SubCallResult("analyzeFirstRequest", resp["analyzeFirstRequest"]).value,
   conversationFlow |-> SubCallResult("analyzeConversationFlow", resp["analyzeConversationFlow"]).value,
   endingAnalysis |-> SubCallResult("analyzeEnding", resp["analyzeEnding"]).value,
   improvementSuggestions |->
     SubCallResult("generateImprovementSuggestions", resp["generateImprovementSuggestions"]).value,
   problemTypes |-> SubCallResult("identifyProblemTypes", resp["identifyProblemTypes"]).value]

SessIdle ==
  /\ sessPc = "notCalled"
  /\ subResp = [k \in SubCallNames |-> Idle]
  /\ sessResult = <<>>

\* analyzeSession(session) is called: the five requests are issued at once.
CallAnalyzeSession ==
  /\ sessPc = "notCalled"
  /\ sessPc' = "awaiting"
  /\ subResp' = [k \in SubCallNames |-> Pending]
  /\ UNCHANGED sessResult
  /\ UNCHANGED <<runVars, fetchVars, aggVars, logVars>>

\* Sub-call k settles with response r.
SubCallResponds(k) ==
  /\ subResp[k] = Pending
  /\ \E r \in Responses(k) :
       /\ subResp' = [subResp EXCEPT ![k] = r]
       /\ sessPc' = JoinAll(sessPc, subResp')
       /\ sessResult' = IF sessPc = "awaiting" /\ sessPc' = "resolved"
                          THEN <<BuildAnalysis(subResp')>> ELSE sessResult
  /\ UNCHANGED <<runVars, fetchVars, aggVars, logVars>>

----------------------------------------------------------------------------
\* FirestoreService.fetchLogs and fetchEnrichedSessions.

\* String.prototype.toLowerCase and String.prototype.includes.
UpperCaseLetters == "ABCDEFGHIJKLMNOPQRSTUVWXYZ"
LowerCaseLetters == "abcdefghijklmnopqrstuvwxyz"
RECURSIVE toLowerCase(_)
toLowerCase(s) ==
  IF Len(s) = 0 THEN ""
  ELSE LET c == SubSeq(s, 1, 1)
           at == {i \in 1..Len(UpperCaseLetters) : SubSeq(UpperCaseLetters, i, i) = c}
           lower == IF at = {} THEN c
                    ELSE LET i == CHOOSE i \in at : TRUE
                         IN SubSeq(LowerCaseLetters, i, i)
       IN lower \o toLowerCase(SubSeq(s, 2, Len(s)))
includes(message, word) ==
  \E i \in 0..(Len(message) - Len(word)) :
    SubSeq(message, i + 1, i + Len(word)) = word

UserMsg == [is_user |-> TRUE, content |-> "help"]
BotMsg == [is_user |-> FALSE, content |-> "answer"]
\* The message lists a stored session is taken to have.
MsgLists == {<<>>, <<UserMsg>>, <<UserMsg, BotMsg>>, <<UserMsg, BotMsg, UserMsg>>}

\* The store: session documents 1..n, each with its messages sub-collection;
\* message_count is the session document's own field.
Stores ==
  UNION {[1..n -> MsgLists] : n \in 0..MaxStoreSessions}
StoreDoc(store, id) ==
  [id |-> id, message_count |-> Len(store[id]), messages |-> store[id],
   created_at |-> [date |-> <<2024, 3, id>>, hour |-> 8 + id],
   platform |-> IF id = 1 THEN "ios" ELSE "android",
   session_duration |-> IF id = 1 THEN 0 ELSE 5, app_version |-> "1.0"]

FetchCallIdle ==
  /\ fetchPc = "notCalled"
  /\ fetchIdx = 0
  /\ enriched = <<>>
  /\ failedMsgFetches = {}
  /\ logsPc = "notCalled"
  /\ logs = <<>>
FetchIdle ==
  /\ storeSessions = <<>>
  /\ FetchCallIdle

IsUser(m) == m.is_user
IsBot(m) == ~m.is_user
Max(a, b) == IF a > b THEN a ELSE b

\* The element enrichedSessions.push() adds for session document doc and the
\* messages fetchSessionMessages returned.
Enrich(doc, messages) ==
  [id |-> doc.id, message_count |-> doc.message_count, messages |-> messages,
   created_at |-> doc.created_at, platform |-> doc.platform,
   app_version |-> doc.app_version,
   userMessageCount |-> Len(SelectSeq(messages, IsUser)),
   botMessageCount |-> Len(SelectSeq(messages, IsBot)),
   hasActions |-> \E i \in DOMAIN messages :
                    "has_actions" \in DOMAIN messages[i] /\ messages[i].has_actions,
   sessionDurationMinutes |-> doc.session_duration]

\* fetchSessionMessages' catch block: console.error and return [].
MessagesOnError == <<>>

categorizeQuery(query) ==
  LET lowerQuery == toLowerCase(query)
      Has(words) == \E w \in words : includes(lowerQuery, w)
  IN IF Has({"help", "support"}) THEN "help"
     ELSE IF Has({"error", "problem", "issue"}) THEN "technical"
     ELSE IF Has({"how", "what", "where"}) THEN "information"
     ELSE IF Has({"account", "login", "password"}) THEN "account"
     ELSE IF Has({"payment", "billing", "subscription"}) THEN "billing"
     ELSE IF Has({"meditation", "relax", "stress"}) THEN "wellness"
     ELSE "general"

\* The logs fetchLogs makes of one enriched session: one per user/bot pair.
\* A log has no rating and no userId; the stored messages carry no timestamp,
\* so that a log's timestamp is the session's created_at.  Document ids are
\* numbered, and a log's conversationId is the numeral.
ConversationLogs(session) ==
  LET userMessages == SelectSeq(session.messages, IsUser)
      botMessages == SelectSeq(session.messages, IsBot)
      ContentOf(list, i) == IF i <= Len(list) THEN list[i].content ELSE ""
  IN [i \in 1..Max(Len(userMessages), Len(botMessages)) |->
        [id |-> <<session.id, i - 1>>,
         conversationId |-> ToString(session.id),
         userMessage |-> ContentOf(userMessages, i),
         botResponse |-> ContentOf(botMessages, i),
         timestamp |-> IF i <= Len(userMessages) /\ "timestamp" \in DOMAIN userMessages[i]
                         THEN userMessages[i].timestamp ELSE session.created_at,
         sessionDuration |-> session.sessionDurationMinutes,
         resolved |-> session.message_count > 2,
         category |-> categorizeQuery(ContentOf(userMessages, i)),
         error |-> FALSE,
         platform |-> session.platform,
         metadata |-> [messageCount |-> session.message_count,
                       hasActions |-> session.hasActions,
                       appVersion |-> session.app_version,
                       responseTime |-> IF i <= Len(botMessages) THEN 1000 ELSE 0]]]

RECURSIVE FlatMapLogs(_)
FlatMapLogs(list) ==
  IF list = <<>> THEN <<>>
  ELSE ConversationLogs(Head(list)) \o FlatMapLogs(Tail(list))

\* fetchLogs is called; it calls fetchEnrichedSessions, which issues the
\* sessions query.
CallFetchLogs ==
  /\ logsPc = "notCalled"
  /\ logsPc' = "awaiting"
  /\ fetchPc' = "sessionsQuery"
  /\ UNCHANGED <<storeSessions, fetchIdx, enriched, failedMsgFetches, logs>>
  /\ UNCHANGED <<runVars, sessVars, aggVars, logVars>>

\* fetchEnrichedSessions has enriched every session (list): it returns and
\* fetchLogs flat-maps the sessions to logs.
FinishFetch(list) ==
  /\ fetchPc' = "resolved"
  /\ logsPc' = "resolved"
  /\ logs' = FlatMapLogs(list)

\* The sessions query resolves: with no session the loop body never runs,
\* otherwise the messages query of the first session is issued.
SessionsQueryResolves ==
  /\ fetchPc = "sessionsQuery"
  /\ IF Len(storeSessions) = 0
       THEN FinishFetch(<<>>)
       ELSE fetchPc' = "messagesQuery" /\ UNCHANGED <<logsPc, logs>>
  /\ UNCHANGED <<storeSessions, fetchIdx, enriched, failedMsgFetches>>
  /\ UNCHANGED <<runVars, sessVars, aggVars, logVars>>

\* The sessions query rejects: fetchSessions rethrows, fetchEnrichedSessions
\* rethrows, fetchLogs rejects.
SessionsQueryFails ==
  /\ fetchPc = "sessionsQuery"
  /\ fetchPc' = "rejected"
  /\ logsPc' = "rejected"
  /\ UNCHANGED <<storeSessions, fetchIdx, enriched, failedMsgFetches, logs>>
  /\ UNCHANGED <<runVars, sessVars, aggVars, logVars>>

\* fetchSessionMessages returned `messages` for the session at fetchIdx + 1:
\* enrich it, then go on to the next session or return.
AfterMessages(messages) ==
  LET doc == StoreDoc(storeSessions, fetchIdx + 1)
      list == Append(enriched, Enrich(doc, messages))
  IN /\ enriched' = list
     /\ fetchIdx' = fetchIdx + 1
     /\ IF fetchIdx + 1 = Len(storeSessions)
          THEN FinishFetch(list)
          ELSE fetchPc' = "messagesQuery" /\ UNCHANGED <<logsPc, logs>>

\* The messages query of the current session resolves.
MessagesQueryResolves ==
  /\ fetchPc = "messagesQuery"
  /\ AfterMessages(storeSessions[fetchIdx + 1])
  /\ UNCHANGED <<storeSessions, failedMsgFetches>>
  /\ UNCHANGED <<runVars, sessVars, aggVars, logVars>>

\* The messages query of the current session rejects: fetchSessionMessages
\* catches the error and returns its substitute list.
MessagesQueryFails ==
  /\ fetchPc = "messagesQuery"
  /\ failedMsgFetches' = failedMsgFetches \cup {fetchIdx + 1}
  /\ AfterMessages(MessagesOnError)
  /\ UNCHANGED storeSessions
  /\ UNCHANGED <<runVars, sessVars, aggVars, logVars>>

----------------------------------------------------------------------------
\* OpenAIAnalysisService.aggregateAnalyses.
\*
\* The analyses are held in a heap so that sharing and in-place updates are
\* visible: heapObjs holds the improvement-suggestion objects (their examples
\* field is a reference into heapArrs), heapArrs holds the string arrays.

Take(seq, n) == SubSeq(seq, 1, Min(n, Len(seq)))

\* Array.from(new Set(list)): first occurrences, in order.
RECURSIVE Dedup(_)
Dedup(list) ==
  IF list = <<>> THEN <<>>
  ELSE LET init == Dedup(SubSeq(list, 1, Len(list) - 1))
           last == list[Len(list)]
       IN IF \E i \in DOMAIN init : init[i] = last THEN init ELSE Append(init, last)

\* Array.prototype.sort with comparator cmp, before[i][j] standing for
\* cmp(seq[i], seq[j]) < 0: the sort is stable, equal elements keep their order.
StableSort(seq, before) ==
  LET n == Len(seq)
      Rank(i) == Cardinality({j \in 1..n :
                    \/ before[j][i]
                    \/ (~before[i][j] /\ j < i)}) + 1
  IN [r \in 1..n |-> seq[CHOOSE i \in 1..n : Rank(i) = r]]

\* Position of the Map entry with this key, 0 when the Map has none.
IndexOfKey(map, key) ==
  IF \E i \in DOMAIN map : map[i].key = key
    THEN CHOOSE i \in DOMAIN map : map[i].key = key
    ELSE 0

\* (count / total) * 100 and sums / lengths, kept as exact fractions.
Fraction(num, den) == [num |-> num, den |-> den]

\* ---- commonFirstRequests ----
RECURSIVE RequestMap(_)
RequestMap(list) ==
  IF list = <<>> THEN <<>>
  ELSE LET map == RequestMap(SubSeq(list, 1, Len(list) - 1))
           a == list[Len(list)]
           intent == a.firstUserRequest.intent
           idx == IndexOfKey(map, intent)
       IN IF idx = 0
            THEN Append(map, [key |-> intent, count |-> 1,
                              claritySum |-> a.firstUserRequest.clarity])
            ELSE [map EXCEPT ![idx].count = @ + 1,
                             ![idx].claritySum = @ + a.firstUserRequest.clarity]

CountAscending(a, b) == a.count < b.count
CountDescending(a, b) == a.count > b.count

CommonFirstRequests(list) ==
  LET total == Len(list)
      map == RequestMap(list)
      rows == [i \in DOMAIN map |->
                 [pattern |-> map[i].key, count |-> map[i].count,
                  percentage |-> Fraction(map[i].count * 100, total),
                  averageClarity |-> Fraction(map[i].claritySum, map[i].count)]]
  IN Take(StableSort(rows,
       [i \in DOMAIN rows |-> [j \in DOMAIN rows |-> CountDescending(rows[i], rows[j])]]), 10)

\* ---- conversationPatterns ----
FlowPatternKey(flow) ==
  flow.userSatisfactionTrend \o "_" \o ToString(flow.topicChanges) \o "topics"

\* One iteration of analyses.forEach over flowPatterns.  st holds the Map
\* (entries in insertion order), the array heap and whether a TypeError was
\* thrown: push(...undefined) throws when misunderstandings is absent.
FlowStep(st, a) ==
  LET flow == a.conversationFlow
      key == FlowPatternKey(flow)
      idx == IndexOfKey(st.map, key)
      \* the entry found, or a new one whose commonIssues is a new empty array
      arrs1 == IF idx = 0 THEN Append(st.arrs, <<>>) ELSE st.arrs
      map1 == IF idx = 0
                THEN Append(st.map, [key |-> key, frequency |-> 0,
                                     averageQuality |-> Fraction(0, 1),
                                     commonIssues |-> Len(arrs1)])
                ELSE st.map
      at == IF idx = 0 THEN Len(map1) ELSE idx
      old == map1[at]
      counted == [map1 EXCEPT
                    ![at].frequency = @ + 1,
                    ![at].averageQuality =
                       Fraction(old.averageQuality.num
                                  + flow.conversationQuality * old.averageQuality.den,
                                2 * old.averageQuality.den)]
  IN IF "misunderstandings" \notin DOMAIN flow
       THEN [st EXCEPT !.threw = TRUE]
       ELSE [map |-> counted,
             arrs |-> [arrs1 EXCEPT ![old.commonIssues] =
                          @ \o st.arrs[flow.misunderstandings]],
             threw |-> FALSE]

RECURSIVE FlowPatterns(_, _)
FlowPatterns(list, arrs) ==
  IF list = <<>> THEN [map |-> <<>>, arrs |-> arrs, threw |-> FALSE]
  ELSE LET st == FlowPatterns(SubSeq(list, 1, Len(list) - 1), arrs)
       IN IF st.threw THEN st ELSE FlowStep(st, list[Len(list)])

FrequencyDescending(a, b) == a.frequency > b.frequency

ConversationPatterns(st) ==
  LET rows == [i \in DOMAIN st.map |->
                 [pattern |-> st.map[i].key, frequency |-> st.map[i].frequency,
                  averageQuality |-> st.map[i].averageQuality,
                  commonIssues |-> st.arrs[st.map[i].commonIssues]]]
  IN Take(StableSort(rows,
       [i \in DOMAIN rows |-> [j \in DOMAIN rows |-> FrequencyDescending(rows[i], rows[j])]]), 10)

\* ---- endingPatterns ----
RECURSIVE EndingMap(_)
EndingMap(list) ==
  IF list = <<>> THEN <<>>
  ELSE LET map == EndingMap(SubSeq(list, 1, Len(list) - 1))
           e == list[Len(list)].endingAnalysis
           type == e.resolution \o "_" \o e.endedBy
           idx == IndexOfKey(map, type)
       IN IF idx = 0
            THEN Append(map, [key |-> type, count |-> 1,
                              commonReasons |-> <<e.reasonForEnding>>])
            ELSE [map EXCEPT ![idx].count = @ + 1,
                             ![idx].commonReasons = Append(@, e.reasonForEnding)]

EndingPatterns(list) ==
  LET map == EndingMap(list)
      rows == [i \in DOMAIN map |->
                 [type |-> map[i].key, count |-> map[i].count,
                  percentage |-> Fraction(map[i].count * 100, Len(list)),
                  commonReasons |-> map[i].commonReasons]]
  IN StableSort(rows,
       [i \in DOMAIN rows |-> [j \in DOMAIN rows |-> CountDescending(rows[i], rows[j])]])

\* ---- topImprovements ----
\* `${suggestion.category}-${suggestion.issue.substring(0, 50)}`; the variants
\* key on the first 50 characters of category, "-" and issue together, and on
\* the whole issue.
ImprovementKeyOfJoined(s) ==
  SubSeq(s.category \o "-" \o s.issue, 1, Min(50, Len(s.category \o "-" \o s.issue)))
ImprovementKeyWholeIssue(s) == s.category \o "-" \o s.issue
ImprovementKey(s) ==
  s.category \o "-" \o SubSeq(s.issue, 1, Min(50, Len(s.issue)))

\* improvementMap.set(key, { suggestion: { ...suggestion }, frequency: 1 }):
\* the entry's suggestion is a new object with the fields of objs[ref] (a
\* shallow copy, so its examples field refers to the same array).  The variant
\* keeps the suggestion object itself in the entry.
SeedEntryAliased(objs, ref) == [objs |-> objs, ref |-> ref]
SeedEntry(objs, ref) == [objs |-> Append(objs, objs[ref]), ref |-> Len(objs) + 1]

\* Array.from(new Set([...existing.suggestion.examples, ...suggestion.examples]))
\* .slice(0, 3); the variant leaves out the slice.
MergeExamplesUncapped(kept, added) == Dedup(kept \o added)
MergeExamples(kept, added) == Take(Dedup(kept \o added), 3)

\* One iteration of a.improvementSuggestions.forEach for the suggestion object
\* ref.  undefined.substring throws a TypeError when issue is absent.
ImprovementStep(st, ref) ==
  LET s == st.objs[ref]
  IN IF "issue" \notin DOMAIN s
       THEN [st EXCEPT !.threw = TRUE]
       ELSE
         LET key == ImprovementKey(s)
             idx == IndexOfKey(st.map, key)
         IN IF idx # 0
              THEN LET kept == st.map[idx].suggestion
                       merged == MergeExamples(st.arrs[st.objs[kept].examples],
                                               st.arrs[s.examples])
                   IN [st EXCEPT !.map[idx].frequency = @ + 1,
                                 !.arrs = Append(@, merged),
                                 !.objs[kept].examples = Len(st.arrs) + 1]
              ELSE LET seeded == SeedEntry(st.objs, ref)
                   IN [st EXCEPT !.objs = seeded.objs,
                                 !.map = Append(@, [key |-> key,
                                                    suggestion |-> seeded.ref,
                                                    frequency |-> 1])]

RECURSIVE ImprovementsOf(_, _)
ImprovementsOf(st, refs) ==
  IF refs = <<>> \/ st.threw THEN st
  ELSE LET before == ImprovementsOf(st, SubSeq(refs, 1, Len(refs) - 1))
       IN IF before.threw THEN before ELSE ImprovementStep(before, refs[Len(refs)])

RECURSIVE ImprovementMap(_, _, _)
ImprovementMap(list, objs, arrs) ==
  IF list = <<>> THEN [map |-> <<>>, objs |-> objs, arrs |-> arrs, threw |-> FALSE]
  ELSE ImprovementsOf(ImprovementMap(SubSeq(list, 1, Len(list) - 1), objs, arrs),
                      list[Len(list)].improvementSuggestions)

\* const priorityOrder = { high: 0, medium: 1, low: 2 }; the variant numbers
\* the priorities by name.
PriorityOrderByName == [high |-> 0, low |-> 1, medium |-> 2]
PriorityOrder == [high |-> 0, medium |-> 1, low |-> 2]

\* The value of the suggestion object ref: its fields with the examples array
\* in place of the reference.
SuggestionValue(objs, arrs, ref) ==
  IF "examples" \in DOMAIN objs[ref]
    THEN [objs[ref] EXCEPT !.examples = arrs[@]]
    ELSE objs[ref]

TopImprovements(st) ==
  LET ImprovementBefore(a, b) ==
        LET priorityDiff == PriorityOrder[st.objs[a.suggestion].priority]
                              - PriorityOrder[st.objs[b.suggestion].priority]
        IN IF priorityDiff # 0 THEN priorityDiff < 0
           ELSE b.frequency - a.frequency < 0
      top == Take(StableSort(st.map,
       [i \in DOMAIN st.map |-> [j \in DOMAIN st.map |-> ImprovementBefore(st.map[i], st.map[j])]]), 10)
  IN [i \in DOMAIN top |-> SuggestionValue(st.objs, st.arrs, top[i].suggestion)]

\* ---- problemTypeDistribution ----
RECURSIVE ProblemsOf(_, _)
ProblemsOf(map, problems) ==
  IF problems = <<>> THEN map
  ELSE LET before == ProblemsOf(map, SubSeq(problems, 1, Len(problems) - 1))
           problem == problems[Len(problems)]
           idx == IndexOfKey(before, problem.type)
       IN IF idx = 0
            THEN Append(before, [key |-> problem.type, occurrences |-> 1,
                                 severity |-> problem.severity])
            ELSE [before EXCEPT ![idx].occurrences = @ + 1]

RECURSIVE ProblemMap(_)
ProblemMap(list) ==
  IF list = <<>> THEN <<>>
  ELSE ProblemsOf(ProblemMap(SubSeq(list, 1, Len(list) - 1)),
                  list[Len(list)].problemTypes)

OccurrencesDescending(a, b) == a.occurrences > b.occurrences

ProblemTypeDistribution(list) ==
  LET map == ProblemMap(list)
      rows == [i \in DOMAIN map |->
                 [type |-> map[i].key, occurrences |-> map[i].occurrences,
                  percentage |-> Fraction(map[i].occurrences * 100, Len(list)),
                  severity |-> map[i].severity, trend |-> "stable"]]
  IN StableSort(rows,
       [i \in DOMAIN rows |-> [j \in DOMAIN rows |-> OccurrencesDescending(rows[i], rows[j])]])

\* ---- conversationTranscripts ----
\* sessions?.find(s => s.id === analysis.sessionId) and the transcript built
\* from it; `analysis` is the position of the analysis object it refers to and
\* "now" stands for new Date().  The variant leaves out the analyses that have
\* no session.
Transcript(list, i, sessionList) ==
  LET found == {k \in DOMAIN sessionList : sessionList[k].id = list[i].sessionId}
      session == sessionList[CHOOSE k \in found : \A l \in found : k <= l]
  IN IF found = {}
       THEN [sessionId |-> list[i].sessionId,
             startTime |-> "now", endTime |-> "now", platform |-> "unknown",
             messageCount |-> 0, duration |-> 0, messages |-> <<>>,
             analysis |-> i]
       ELSE [sessionId |-> list[i].sessionId,
             startTime |-> session.created_at,
             endTime |-> session.last_message_at,
             platform |-> IF session.platform = "" THEN "unknown"
                          ELSE session.platform,
             messageCount |-> session.message_count,
             duration |-> session.sessionDurationMinutes,
             messages |-> [m \in DOMAIN session.messages |->
                             [isUser |-> session.messages[m].is_user,
                              content |-> session.messages[m].content]],
             analysis |-> i]

RECURSIVE ConversationTranscriptsOfFound(_, _)
ConversationTranscriptsOfFound(list, sessionList) ==
  IF list = <<>> THEN <<>>
  ELSE LET before == ConversationTranscriptsOfFound(SubSeq(list, 1, Len(list) - 1),
                                                    sessionList)
       IN IF \E k \in DOMAIN sessionList : sessionList[k].id = list[Len(list)].sessionId
            THEN Append(before, Transcript(list, Len(list), sessionList))
            ELSE before
ConversationTranscripts(list, sessionList) ==
  [i \in DOMAIN list |-> Transcript(list, i, sessionList)]

\* aggregateAnalyses(analyses, sessions) on the heap (objs, arrs): the heap
\* after the call, whether the call threw, the AggregatedAnalysis returned and
\* (not part of the return value) the entries of improvementMap.
AggregateAnalyses(list, sessionList, objs, arrs) ==
  LET flow == FlowPatterns(list, arrs)
      imp == ImprovementMap(list, objs, flow.arrs)
  IN IF flow.threw
       THEN [threw |-> TRUE, objs |-> objs, arrs |-> flow.arrs]
     ELSE IF imp.threw
       THEN [threw |-> TRUE, objs |-> imp.objs, arrs |-> imp.arrs]
     ELSE [threw |-> FALSE, objs |-> imp.objs, arrs |-> imp.arrs,
           improvementMap |->
             [i \in DOMAIN imp.map |->
                [key |-> imp.map[i].key, frequency |-> imp.map[i].frequency,
                 suggestion |-> SuggestionValue(imp.objs, imp.arrs, imp.map[i].suggestion)]],
           returned |->
             [totalSessions |-> Len(list),
              commonFirstRequests |-> CommonFirstRequests(list),
              conversationPatterns |-> ConversationPatterns(flow),
              endingPatterns |-> EndingPatterns(list),
              topImprovements |-> TopImprovements(imp),
              problemTypeDistribution |-> ProblemTypeDistribution(list),
              conversationTranscripts |-> ConversationTranscripts(list, sessionList)]]

\* ---- the analyses aggregateAnalyses is applied to ----
\* Two issues sharing their first 50 characters, and a short one.
IssuePrefix == "The assistant could not explain how to reset the p"
IssueMobile == IssuePrefix \o "assword on mobile"
IssueDesktop == IssuePrefix \o "assword on desktop"
IssueShort == "Slow answers"

SuggMobile ==
  [category |-> "knowledge", issue |-> IssueMobile, suggestion |-> "document mobile reset",
   priority |-> "low", examples |-> <<"e1", "e2">>]
SuggDesktop ==
  [category |-> "knowledge", issue |-> IssueDesktop, suggestion |-> "document desktop reset",
   priority |-> "high", examples |-> <<"e2", "e3", "e4">>]
SuggFlow ==
  [category |-> "flow", issue |-> IssueShort, suggestion |-> "answer first",
   priority |-> "high", examples |-> <<"e1">>]
\* a suggestion parsed from a response that gave no issue
SuggNoIssue == Without(SuggFlow, "issue")
\* An issue that shares its first 41 characters with IssueMobile and differs
\* from it within the first 50.
IssueRefund == "The assistant could not explain how to refund an order"
SuggRefund ==
  [category |-> "knowledge", issue |-> IssueRefund, suggestion |-> "document refunds",
   priority |-> "medium", examples |-> <<"e5">>]
\* The issue of SuggFlow again, with a repeated example and more than three.
SuggVerbose ==
  [category |-> "flow", issue |-> IssueShort, suggestion |-> "answer sooner",
   priority |-> "medium", examples |-> <<"e1", "e1", "e2", "e3", "e4">>]
\* Two suggestions of different categories whose category and issue, joined by
\* "-", read the same.
SuggHyphen ==
  [category |-> "flow", issue |-> "follow-up questions ignored",
   suggestion |-> "keep the context", priority |-> "medium", examples |-> <<"e7">>]
SuggDashed ==
  [category |-> "flow-follow", issue |-> "up questions ignored",
   suggestion |-> "answer follow-ups", priority |-> "low", examples |-> <<"e6">>]
Suggestions == {SuggMobile, SuggDesktop, SuggFlow}
SuggestionLists ==
  {<<s>> : s \in Suggestions \cup {SuggNoIssue}}
    \cup {<<s1, s2>> : s1 \in Suggestions, s2 \in Suggestions}

FirstReset == [intent |-> "reset password", clarity |-> 80]
FirstResetUnclear == [intent |-> "reset password", clarity |-> 60]
FirstResetCapital == [intent |-> "Reset password", clarity |-> 60]
FirstBilling == [intent |-> "billing", clarity |-> 60]
FlowStable ==
  [userSatisfactionTrend |-> "stable", topicChanges |-> 1,
   conversationQuality |-> 80, misunderstandings |-> <<"m1">>]
FlowDeclining ==
  [userSatisfactionTrend |-> "declining", topicChanges |-> 2,
   conversationQuality |-> 40, misunderstandings |-> <<>>]
\* a flow parsed from a response that gave no misunderstandings list
FlowNoList == Without(FlowStable, "misunderstandings")
EndingResolved ==
  [resolution |-> "resolved", endedBy |-> "user", reasonForEnding |-> "got the answer"]
EndingAbandoned ==
  [resolution |-> "abandoned", endedBy |-> "timeout", reasonForEnding |-> "no reply"]
ProblemLists == {<<>>, <<[type |-> "login", severity |-> "high"]>>}

\* What analyzeSession is taken to have returned, less the session id.
AnalysisShapes ==
  {[firstUserRequest |-> FirstReset, conversationFlow |-> FlowStable,
    endingAnalysis |-> EndingResolved, improvementSuggestions |-> sl,
    problemTypes |-> <<>>] : sl \in SuggestionLists}
    \cup
  {[firstUserRequest |-> FirstBilling, conversationFlow |-> f,
    endingAnalysis |-> EndingAbandoned, improvementSuggestions |-> <<>>,
    problemTypes |-> pl] : f \in {FlowStable, FlowDeclining, FlowNoList},
                           pl \in ProblemLists}
    \cup
  {[firstUserRequest |-> first, conversationFlow |-> FlowDeclining,
    endingAnalysis |-> EndingResolved, improvementSuggestions |-> <<>>,
    problemTypes |-> <<>>] : first \in {FirstResetUnclear, FirstResetCapital}}

\* Lists of ManyAnalyses analyses with more than ten distinct intents: the
\* first k analyses share one intent, each other analysis has its own.
ManyIntents(k) ==
  [i \in 1..ManyAnalyses |->
     [sessionId |-> i,
      firstUserRequest |->
        [intent |-> "topic " \o ToString(IF i <= k THEN 1 ELSE i), clarity |-> 10 * (i % 10)],
      conversationFlow |-> FlowStable, endingAnalysis |-> EndingResolved,
      improvementSuggestions |-> <<>>, problemTypes |-> <<>>]]

\* The suggestion lists of the analyses of further inputs: one list per
\* analysis.
SuggestionCases ==
  {<<<<SuggVerbose>>>>,
   <<<<SuggVerbose>>, <<SuggFlow>>>>,
   <<<<SuggFlow>>, <<SuggVerbose>>>>,
   <<<<SuggFlow, SuggVerbose>>>>,
   <<<<SuggMobile>>, <<SuggRefund>>>>,
   <<<<SuggRefund, SuggMobile>>, <<SuggDesktop, SuggVerbose>>>>,
   <<<<SuggHyphen>>, <<SuggDashed>>>>,
   <<<<SuggDashed, SuggMobile>>, <<SuggHyphen>>, <<SuggDesktop>>>>,
   <<<<SuggMobile>>, <<SuggDesktop>>, <<SuggMobile, SuggRefund>>>>}
WithSuggestions(sl) ==
  [firstUserRequest |-> FirstReset, conversationFlow |-> FlowStable,
   endingAnalysis |-> EndingResolved, improvementSuggestions |-> sl,
   problemTypes |-> <<>>]
MergeCases ==
  {[i \in DOMAIN c |-> Spread([sessionId |-> i], WithSuggestions(c[i]))] :
     c \in SuggestionCases}

\* A list of ManyAnalyses analyses with more than ten distinct suggestion
\* keys: analysis i brings its own issue, of a priority that depends on i, and
\* one of three issues brought before.
PriorityOf(i) == IF i % 3 = 0 THEN "high" ELSE IF i % 3 = 1 THEN "medium" ELSE "low"
NumberedSuggestion(i, k) ==
  [category |-> "flow", issue |-> "issue " \o ToString(k),
   suggestion |-> "fix " \o ToString(i), priority |-> PriorityOf(i),
   examples |-> <<"x" \o ToString(i)>>]
ManySuggestions ==
  [i \in 1..ManyAnalyses |->
     Spread([sessionId |-> i],
            WithSuggestions(<<NumberedSuggestion(i, i),
                              NumberedSuggestion(i + 1, (i % 3) + 1)>>))]

\* analyzeSessions returns the analyses in session order: the i-th carries the
\* id of the i-th session.
AnalysisLists ==
  UNION {{[i \in 1..n |-> Spread([sessionId |-> i], f[i])] :
            f \in [1..n -> AnalysisShapes]} : n \in 0..MaxAnalyses}
    \cup {ManyIntents(k) : k \in 1..2}
    \cup MergeCases
    \cup {ManySuggestions}

AggSession(id) ==
  LET messages == IF id = 1 THEN <<UserMsg, BotMsg>> ELSE <<UserMsg, BotMsg, UserMsg>>
  IN [id |-> id, created_at |-> "t0", last_message_at |-> "t1",
      platform |-> IF id = 1 THEN "web" ELSE "", message_count |-> Len(messages),
      sessionDurationMinutes |-> 5 * id, messages |-> messages]
\* The sessions argument: absent (it then behaves as an empty list: find yields
\* undefined), the sessions of all analyses, or all but the last.
SessionLists(n) ==
  {<<>>, [i \in 1..n |-> AggSession(i)]}
    \cup (IF n > 0 THEN {[i \in 1..(n - 1) |-> AggSession(i)]} ELSE {})

\* ---- the analyses as objects ----
RECURSIVE LoadSuggestions(_, _)
LoadSuggestions(heap, values) ==
  IF values = <<>> THEN heap
  ELSE LET before == LoadSuggestions(heap, SubSeq(values, 1, Len(values) - 1))
           v == values[Len(values)]
       IN [objs |-> Append(before.objs, [v EXCEPT !.examples = Len(before.arrs) + 1]),
           arrs |-> Append(before.arrs, v.examples),
           refs |-> Append(before.refs, Len(before.objs) + 1)]

LoadAnalysis(heap, v) ==
  LET hasList == "misunderstandings" \in DOMAIN v.conversationFlow
      arrs1 == IF hasList
                 THEN Append(heap.arrs, v.conversationFlow.misunderstandings)
                 ELSE heap.arrs
      flow == IF hasList
                THEN [v.conversationFlow EXCEPT !.misunderstandings = Len(arrs1)]
                ELSE v.conversationFlow
      loaded == LoadSuggestions([objs |-> heap.objs, arrs |-> arrs1, refs |-> <<>>],
                                v.improvementSuggestions)
  IN [objs |-> loaded.objs, arrs |-> loaded.arrs,
      list |-> Append(heap.list, [v EXCEPT !.conversationFlow = flow,
                                           !.improvementSuggestions = loaded.refs])]

RECURSIVE LoadAnalyses(_)
LoadAnalyses(values) ==
  IF values = <<>> THEN [objs |-> <<>>, arrs |-> <<>>, list |-> <<>>]
  ELSE LoadAnalysis(LoadAnalyses(SubSeq(values, 1, Len(values) - 1)),
                    values[Len(values)])

\* The value of analysis object a in the heap (objs, arrs).
AnalysisValue(a, objs, arrs) ==
  [a EXCEPT
     !.conversationFlow =
        IF "misunderstandings" \in DOMAIN @
          THEN [@ EXCEPT !.misunderstandings = arrs[@]] ELSE @,
     !.improvementSuggestions =
        [i \in DOMAIN @ |-> SuggestionValue(objs, arrs, @[i])]]

AggIdle ==
  /\ aggInput = <<>>
  /\ aggSessions = <<>>
  /\ aggAnalyses = <<>>
  /\ heapObjs = <<>>
  /\ heapArrs = <<>>
  /\ aggResults = <<>>

\* aggregateAnalyses(analyses, sessions) is called and runs to its return or
\* to the TypeError it throws.
CallAggregateAnalyses ==
  /\ Len(aggResults) < MaxAggCalls
  /\ LET r == AggregateAnalyses(aggAnalyses, aggSessions, heapObjs, heapArrs)
     IN /\ heapObjs' = r.objs
        /\ heapArrs' = r.arrs
        /\ aggResults' = Append(aggResults, Without(Without(r, "objs"), "arrs"))
  /\ UNCHANGED <<aggInput, aggSessions, aggAnalyses>>
  /\ UNCHANGED <<runVars, sessVars, fetchVars, logVars>>

----------------------------------------------------------------------------
\* AnalyticsService.analyzeLogsAggregation.
\*
\* A ChatLog is a record holding the fields that are present.  A timestamp is
\* a valid Date, held as its UTC calendar date <<year, month, day>> and its
\* local hour.  Numbers that need not be whole are exact fractions.

\* log.field || dflt, and log.metadata?.field || dflt: an absent field and a
\* falsy value ("" , 0, false) both give dflt.
NumberFields == {"sessionDuration", "rating", "responseTime", "messageCount"}
BooleanFields == {"resolved", "error", "hasActions"}
Falsy(field, v) ==
  IF field \in NumberFields THEN v = 0
  ELSE IF field \in BooleanFields THEN v = FALSE
  ELSE v = ""
Truthy(log, field) == field \in DOMAIN log /\ ~Falsy(field, log[field])
OrElse(log, field, dflt) == IF Truthy(log, field) THEN log[field] ELSE dflt
MetaOrElse(log, field, dflt) ==
  IF "metadata" \in DOMAIN log THEN OrElse(log.metadata, field, dflt) ELSE dflt
MetaTruthy(log, field) == "metadata" \in DOMAIN log /\ Truthy(log.metadata, field)

RECURSIVE SumSeq(_)
SumSeq(numbers) ==
  IF numbers = <<>> THEN 0 ELSE Head(numbers) + SumSeq(Tail(numbers))

\* sum / length of a list of numbers, 0 for the empty list.
MeanOrZero(numbers) ==
  IF Len(numbers) = 0 THEN Fraction(0, 1)
  ELSE Fraction(SumSeq(numbers), Len(numbers))

\* list.map(f).filter(keep): here the sequence of OrElse values that are > 0.
RECURSIVE PositiveValues(_, _)
PositiveValues(list, field) ==
  IF list = <<>> THEN <<>>
  ELSE LET v == OrElse(Head(list), field, 0)
       IN (IF v > 0 THEN <<v>> ELSE <<>>) \o PositiveValues(Tail(list), field)

\* The entries of a Map<key, number> counting the keys given, in insertion
\* order: map.set(key, (map.get(key) || 0) + 1) for each key in turn.
KeyCounts(keys) ==
  LET order == Dedup(keys)
  IN [k \in DOMAIN order |->
        [key |-> order[k],
         count |-> Cardinality({i \in DOMAIN keys : keys[i] = order[k]})]]

\* The truthy values of a field (of metadata when meta), in log order.
RECURSIVE FieldValues(_, _, _)
FieldValues(list, field, meta) ==
  IF list = <<>> THEN <<>>
  ELSE LET log == Head(list)
           present == IF meta THEN MetaTruthy(log, field) ELSE Truthy(log, field)
           v == IF meta THEN log.metadata[field] ELSE log[field]
       IN (IF present THEN <<v>> ELSE <<>>) \o FieldValues(Tail(list), field, meta)

getUniqueUsers(list) ==
  Cardinality({list[i].userId : i \in {j \in DOMAIN list : Truthy(list[j], "userId")}})

calculateAverageSessionDuration(list) ==
  MeanOrZero(PositiveValues(list, "sessionDuration"))

\* The variant averages over all logs.
calculateAverageRatingOfAll(list) ==
  MeanOrZero([i \in DOMAIN list |-> OrElse(list[i], "rating", 0)])
calculateAverageRating(list) ==
  MeanOrZero(PositiveValues(list, "rating"))

\* log.flag === true
IsTrue(log, flag) == flag \in DOMAIN log /\ log[flag] = TRUE

\* The variant divides by the number of logs that have the flag.
calculateResolvedRateOfPresent(list) ==
  LET present == Cardinality({i \in DOMAIN list : "resolved" \in DOMAIN list[i]})
  IN IF present = 0 THEN Fraction(0, 1)
     ELSE Fraction(Cardinality({i \in DOMAIN list : IsTrue(list[i], "resolved")}) * 100,
                   present)
calculateResolvedRate(list) ==
  IF Len(list) = 0 THEN Fraction(0, 1)
  ELSE Fraction(Cardinality({i \in DOMAIN list : IsTrue(list[i], "resolved")}) * 100,
                Len(list))

\* The variant has no guard for the empty list.
calculateErrorRateUnguarded(list) ==
  Fraction(Cardinality({i \in DOMAIN list : IsTrue(list[i], "error")}) * 100, Len(list))
calculateErrorRate(list) ==
  IF Len(list) = 0 THEN Fraction(0, 1)
  ELSE Fraction(Cardinality({i \in DOMAIN list : IsTrue(list[i], "error")}) * 100,
                Len(list))

\* The variant takes the share among the logs that have a category.
getTopCategoriesOfPresent(list) ==
  LET map == KeyCounts(FieldValues(list, "category", FALSE))
      rows == [k \in DOMAIN map |->
                 [category |-> map[k].key, count |-> map[k].count,
                  percentage |-> Fraction(map[k].count * 100,
                                          Len(FieldValues(list, "category", FALSE)))]]
  IN Take(StableSort(rows,
       [i \in DOMAIN rows |-> [j \in DOMAIN rows |-> CountDescending(rows[i], rows[j])]]), 10)
getTopCategories(list) ==
  LET map == KeyCounts(FieldValues(list, "category", FALSE))
      rows == [k \in DOMAIN map |->
                 [category |-> map[k].key, count |-> map[k].count,
                  percentage |-> Fraction(map[k].count * 100, Len(list))]]
  IN Take(StableSort(rows,
       [i \in DOMAIN rows |-> [j \in DOMAIN rows |-> CountDescending(rows[i], rows[j])]]), 10)

\* new Date(log.timestamp).getHours()
getHours(timestamp) == timestamp.hour

\* The variant counts a log without timestamp under hour 0.
getHourlyDistributionDefaultHour(list) ==
  [h \in 1..24 |->
     [hour |-> h - 1,
      count |-> Cardinality({i \in DOMAIN list :
                   IF "timestamp" \in DOMAIN list[i]
                     THEN getHours(list[i].timestamp) = h - 1
                     ELSE h - 1 = 0})]]
getHourlyDistribution(list) ==
  [h \in 1..24 |->
     [hour |-> h - 1,
      count |-> Cardinality({i \in DOMAIN list :
                   /\ "timestamp" \in DOMAIN list[i]
                   /\ getHours(list[i].timestamp) = h - 1})]]

\* new Date(log.timestamp).toISOString().split('T')[0]: the date "YYYY-MM-DD",
\* held as <<year, month, day>>; localeCompare on two such strings is the
\* lexicographic comparison of the triples.
isoDate(timestamp) == timestamp.date
DateBefore(a, b) ==
  \/ a[1] < b[1]
  \/ a[1] = b[1] /\ a[2] < b[2]
  \/ a[1] = b[1] /\ a[2] = b[2] /\ a[3] < b[3]

\* Array.prototype.slice(-n): the last n elements.
TakeLast(seq, n) == SubSeq(seq, Max(1, Len(seq) - n + 1), Len(seq))

RECURSIVE TimestampedLogs(_)
TimestampedLogs(list) ==
  IF list = <<>> THEN <<>>
  ELSE (IF "timestamp" \in DOMAIN Head(list) THEN <<Head(list)>> ELSE <<>>)
         \o TimestampedLogs(Tail(list))

DailyRows(list) ==
  LET dated == TimestampedLogs(list)
      order == Dedup([i \in DOMAIN dated |-> isoDate(dated[i].timestamp)])
      On(date) == {i \in DOMAIN dated : isoDate(dated[i].timestamp) = date}
  IN [k \in DOMAIN order |->
        [date |-> order[k],
         count |-> Cardinality(On(order[k])),
         resolved |-> Cardinality({i \in On(order[k]) : Truthy(dated[i], "resolved")}),
         errors |-> Cardinality({i \in On(order[k]) : Truthy(dated[i], "error")})]]

SortedDailyRows(list) ==
  LET rows == DailyRows(list)
  IN StableSort(rows,
       [i \in DOMAIN rows |-> [j \in DOMAIN rows |-> DateBefore(rows[i].date, rows[j].date)]])

\* .slice(-30); the variant is .slice(0, 30).
getDailyTrendOldest(list) == Take(SortedDailyRows(list), 30)
getDailyTrend(list) == TakeLast(SortedDailyRows(list), 30)

commonKeywords ==
  <<"error", "not working", "broken", "failed", "issue", "problem",
    "help", "stuck", "crash", "slow", "timeout", "login", "password",
    "payment", "checkout", "loading", "display", "missing", "wrong">>

\* The keyword matches in the order findCommonIssues meets them: for each log
\* with a user message, each keyword its lower-cased message includes.
RECURSIVE IssueMatches(_)
IssueMatches(list) ==
  IF list = <<>> THEN <<>>
  ELSE LET log == list[Len(list)]
           message == toLowerCase(OrElse(log, "userMessage", ""))
           hits == SelectSeq(commonKeywords, LAMBDA keyword : includes(message, keyword))
       IN IssueMatches(SubSeq(list, 1, Len(list) - 1))
            \o (IF Truthy(log, "userMessage")
                  THEN [k \in DOMAIN hits |->
                          [keyword |-> hits[k],
                           example |-> Take(log.userMessage, 100)]]
                  ELSE <<>>)

findCommonIssues(list) ==
  LET matches == IssueMatches(list)
      map == KeyCounts([i \in DOMAIN matches |-> matches[i].keyword])
      ExamplesOf(keyword) ==
        LET of == SelectSeq(matches, LAMBDA m : m.keyword = keyword)
        IN Take(Dedup([i \in DOMAIN of |-> of[i].example]), 3)
      rows == [k \in DOMAIN map |->
                 [pattern |-> map[k].key, frequency |-> map[k].count,
                  examples |-> ExamplesOf(map[k].key)]]
  IN Take(StableSort(rows,
       [i \in DOMAIN rows |-> [j \in DOMAIN rows |-> FrequencyDescending(rows[i], rows[j])]]), 10)

positiveWords ==
  <<"thank", "great", "excellent", "good", "perfect", "amazing", "helpful", "solved">>
negativeWords ==
  <<"bad", "terrible", "awful", "hate", "angry", "frustrated", "disappointed", "useless">>

sentimentScore(userMessage) ==
  LET message == toLowerCase(userMessage)
  IN Len(SelectSeq(positiveWords, LAMBDA word : includes(message, word)))
       - Len(SelectSeq(negativeWords, LAMBDA word : includes(message, word)))

\* The numbers of classified logs by the sign of their score.
SentimentCounts(list) ==
  LET classified == FieldValues(list, "userMessage", FALSE)
  IN [positive |-> Len(SelectSeq(classified, LAMBDA m : sentimentScore(m) > 0)),
      negative |-> Len(SelectSeq(classified, LAMBDA m : sentimentScore(m) < 0)),
      neutral |-> Len(SelectSeq(classified, LAMBDA m : sentimentScore(m) = 0))]

\* The variant reports the shares over all logs.
analyzeUserSentimentOfAll(list) ==
  LET c == SentimentCounts(list)
      total == Max(1, Len(list))
  IN [positive |-> Fraction(c.positive * 100, total),
      neutral |-> Fraction(c.neutral * 100, total),
      negative |-> Fraction(c.negative * 100, total)]
analyzeUserSentiment(list) ==
  LET c == SentimentCounts(list)
      total == IF c.positive + c.negative + c.neutral = 0 THEN 1
               ELSE c.positive + c.negative + c.neutral
  IN [positive |-> Fraction(c.positive * 100, total),
      neutral |-> Fraction(c.neutral * 100, total),
      negative |-> Fraction(c.negative * 100, total)]

Ascending(a, b) == a < b

\* Math.floor(n * 0.95), Math.floor(n * 0.99)
FloorOfHundredths(n, hundredths) == (n * hundredths) \div 100

\* The variant reads the percentiles from the unsorted list.
ResponseTimeStats(responseTimes) ==
  LET n == Len(responseTimes)
  IN IF n = 0
       THEN [average |-> Fraction(0, 1), median |-> 0, p95 |-> 0, p99 |-> 0]
       ELSE [average |-> Fraction(SumSeq(responseTimes), n),
             median |-> responseTimes[(n \div 2) + 1],
             p95 |-> responseTimes[FloorOfHundredths(n, 95) + 1],
             p99 |-> responseTimes[FloorOfHundredths(n, 99) + 1]]
analyzeResponseTimesUnsorted(list) ==
  ResponseTimeStats(FieldValues(list, "responseTime", TRUE))
analyzeResponseTimes(list) ==
  LET responseTimes == FieldValues(list, "responseTime", TRUE)
  IN ResponseTimeStats(StableSort(responseTimes,
       [i \in DOMAIN responseTimes |->
          [j \in DOMAIN responseTimes |-> Ascending(responseTimes[i], responseTimes[j])]]))

getPlatformDistribution(list) ==
  LET map == KeyCounts(FieldValues(list, "platform", FALSE))
      rows == [k \in DOMAIN map |->
                 [platform |-> map[k].key, count |-> map[k].count,
                  percentage |-> Fraction(map[k].count * 100, Len(list))]]
  IN StableSort(rows,
       [i \in DOMAIN rows |-> [j \in DOMAIN rows |-> CountDescending(rows[i], rows[j])]])

getAppVersions(list) ==
  LET map == KeyCounts(FieldValues(list, "appVersion", TRUE))
      rows == [k \in DOMAIN map |->
                 [version |-> map[k].key, count |-> map[k].count,
                  percentage |-> Fraction(map[k].count * 100, Len(list))]]
  IN Take(StableSort(rows,
       [i \in DOMAIN rows |-> [j \in DOMAIN rows |-> CountDescending(rows[i], rows[j])]]), 10)

calculateAverageMessagesPerSession(list) ==
  LET map == KeyCounts(FieldValues(list, "conversationId", FALSE))
      totalSessions == Len(map)
      totalMessages == SumSeq([k \in DOMAIN map |-> map[k].count])
  IN IF Len(list) = 0 \/ totalSessions = 0 THEN Fraction(0, 1)
     ELSE Fraction(totalMessages, totalSessions)

getSessionsWithActions(list) ==
  Cardinality({list[i].conversationId :
                 i \in {j \in DOMAIN list : /\ MetaTruthy(list[j], "hasActions")
                                            /\ Truthy(list[j], "conversationId")}})

getTotalMessages(list) ==
  SumSeq([i \in DOMAIN list |-> MetaOrElse(list[i], "messageCount", 1)])

RECURSIVE MessageLengths(_)
MessageLengths(list) ==
  IF list = <<>> THEN <<>>
  ELSE LET log == Head(list)
       IN (IF Truthy(log, "userMessage") THEN <<Len(log.userMessage)>> ELSE <<>>)
            \o (IF Truthy(log, "botResponse") THEN <<Len(log.botResponse)>> ELSE <<>>)
            \o MessageLengths(Tail(list))

calculateAverageMessageLength(list) == MeanOrZero(MessageLengths(list))

analyzeLogsAggregation(list) ==
  [totalConversations |-> Len(list),
   uniqueUsers |-> getUniqueUsers(list),
   averageSessionDuration |-> calculateAverageSessionDuration(list),
   averageRating |-> calculateAverageRating(list),
   resolvedRate |-> calculateResolvedRate(list),
   errorRate |-> calculateErrorRate(list),
   topCategories |-> getTopCategories(list),
   hourlyDistribution |-> getHourlyDistribution(list),
   dailyTrend |-> getDailyTrend(list),
   commonIssues |-> findCommonIssues(list),
   userSentiment |-> analyzeUserSentiment(list),
   responseTimeAnalysis |-> analyzeResponseTimes(list),
   platformDistribution |-> getPlatformDistribution(list),
   appVersions |-> getAppVersions(list),
   averageMessagesPerSession |-> calculateAverageMessagesPerSession(list),
   sessionsWithActions |-> getSessionsWithActions(list),
   totalMessages |-> getTotalMessages(list),
   averageMessageLength |-> calculateAverageMessageLength(list)]

\* ---- InsightsService.generateInsights ----
\* Texts built from template literals are held as records of their fixed text
\* and the values shown in it.

\* Comparisons of a fraction (denominator above 0) with a whole number and
\* with another fraction.
Above(f, n) == f.num > n * f.den
Below(f, n) == f.num < n * f.den
AsFraction(n) == Fraction(n, 1)

\* Number.prototype.toFixed(digits): the number rounded to that many decimals,
\* held as its sign and the rounded count of 10^-digits units; "NaN" and
\* "Infinity" for a division by zero.
toFixed(f, digits) ==
  LET scale == 10 ^ digits
      size == IF f.num < 0 THEN -f.num ELSE f.num
  IN IF f.den = 0 THEN (IF f.num = 0 THEN "NaN" ELSE "Infinity")
     ELSE LET units == (2 * size * scale + f.den) \div (2 * f.den)
          IN [digits |-> digits, units |-> units, negative |-> f.num < 0]

\* calculateChange(current, previous) on fractions.
calculateChange(current, previous) ==
  IF previous.num = 0 THEN [text |-> "+100%"]
  ELSE LET change == Fraction((current.num * previous.den - previous.num * current.den) * 100,
                              previous.num * current.den)
       IN [sign |-> IF change.num >= 0 THEN "+" ELSE "", percent |-> toFixed(change, 1)]

\* getTrend(current, previous) with threshold 0.05.
getTrend(current, previous) ==
  IF current.num * previous.den * 100 > previous.num * 105 * current.den THEN "up"
  ELSE IF current.num * previous.den * 100 < previous.num * 95 * current.den THEN "down"
  ELSE "stable"

\* The `previous` argument is a sequence: empty when absent, else <<Analytics>>.
KeyMetric(name, value, current, field, previous, trendDefault) ==
  IF previous = <<>>
    THEN (IF trendDefault = "" THEN [name |-> name, value |-> value]
          ELSE [name |-> name, value |-> value, trend |-> trendDefault])
    ELSE [name |-> name, value |-> value,
          change |-> calculateChange(current, previous[1][field]),
          trend |-> getTrend(current, previous[1][field])]

\* Math.round(averageSessionDuration / 60)
RoundedMinutes(f) == (2 * f.num + 60 * f.den) \div (2 * 60 * f.den)

generateKeyMetrics(a, previous) ==
  <<KeyMetric("Total Conversations", a.totalConversations,
              AsFraction(a.totalConversations),
              "totalConversations",
              [i \in DOMAIN previous |->
                 [totalConversations |-> AsFraction(previous[i].totalConversations)]], ""),
    KeyMetric("Active Users", a.uniqueUsers, AsFraction(a.uniqueUsers), "uniqueUsers",
              [i \in DOMAIN previous |-> [uniqueUsers |-> AsFraction(previous[i].uniqueUsers)]], ""),
    KeyMetric("Resolution Rate", toFixed(a.resolvedRate, 1), a.resolvedRate,
              "resolvedRate", previous, ""),
    KeyMetric("Average Rating", toFixed(a.averageRating, 2), a.averageRating,
              "averageRating", previous, ""),
    KeyMetric("Error Rate", toFixed(a.errorRate, 1), a.errorRate,
              "errorRate", previous, "stable"),
    [name |-> "Avg Session Duration",
     value |-> RoundedMinutes(a.averageSessionDuration), trend |-> "stable"]>>

\* The alert rules of generateAlerts, in order.  The variant of the first
\* alerts from 10 on.
ErrorRateAlertFromTen(a) ==
  IF ~Below(a.errorRate, 10)
    THEN <<[severity |-> "high", message |-> "High error rate detected",
            shown |-> toFixed(a.errorRate, 1), metric |-> "errorRate",
            value |-> a.errorRate]>>
    ELSE <<>>
ErrorRateAlert(a) ==
  IF Above(a.errorRate, 10)
    THEN <<[severity |-> "high", message |-> "High error rate detected",
            shown |-> toFixed(a.errorRate, 1), metric |-> "errorRate",
            value |-> a.errorRate]>>
    ELSE <<>>
\* The variant of the second raises no alert when there are no conversations.
ResolvedRateAlertUnlessEmpty(a) ==
  IF Below(a.resolvedRate, 60) /\ a.totalConversations > 0
    THEN <<[severity |-> "high", message |-> "Low resolution rate",
            shown |-> toFixed(a.resolvedRate, 1), metric |-> "resolvedRate",
            value |-> a.resolvedRate]>>
    ELSE <<>>
ResolvedRateAlert(a) ==
  IF Below(a.resolvedRate, 60)
    THEN <<[severity |-> "high", message |-> "Low resolution rate",
            shown |-> toFixed(a.resolvedRate, 1), metric |-> "resolvedRate",
            value |-> a.resolvedRate]>>
    ELSE <<>>
\* The variant of the third leaves out the test averageRating > 0.
AverageRatingAlertBelowThree(a) ==
  IF Below(a.averageRating, 3)
    THEN <<[severity |-> "medium", message |-> "Low average rating",
            shown |-> toFixed(a.averageRating, 2), metric |-> "averageRating",
            value |-> a.averageRating]>>
    ELSE <<>>
AverageRatingAlert(a) ==
  IF Below(a.averageRating, 3) /\ Above(a.averageRating, 0)
    THEN <<[severity |-> "medium", message |-> "Low average rating",
            shown |-> toFixed(a.averageRating, 2), metric |-> "averageRating",
            value |-> a.averageRating]>>
    ELSE <<>>
SentimentAlert(a) ==
  IF Above(a.userSentiment.negative, 30)
    THEN <<[severity |-> "medium", message |-> "High negative sentiment",
            shown |-> toFixed(a.userSentiment.negative, 1), metric |-> "sentiment",
            value |-> a.userSentiment.negative]>>
    ELSE <<>>
ResponseTimeAlert(a) ==
  IF a.responseTimeAnalysis.p95 > 5000
    THEN <<[severity |-> "low", message |-> "Slow response times - P95",
            shown |-> toFixed(Fraction(a.responseTimeAnalysis.p95, 1000), 1),
            metric |-> "responseTime", value |-> a.responseTimeAnalysis.p95]>>
    ELSE <<>>
\* hourlyDistribution.reduce((max, hour) => hour.count > max.count ? hour : max,
\* hourlyDistribution[0]): the first entry with the highest count.  The variant
\* takes the last one (>= for >).
PeakHourLast(hd) ==
  hd[CHOOSE h \in DOMAIN hd :
       /\ \A g \in DOMAIN hd : hd[g].count <= hd[h].count
       /\ \A g \in DOMAIN hd : hd[g].count = hd[h].count => h >= g]
PeakHour(hd) ==
  hd[CHOOSE h \in DOMAIN hd :
       /\ \A g \in DOMAIN hd : hd[g].count <= hd[h].count
       /\ \A g \in DOMAIN hd : hd[g].count = hd[h].count => h <= g]
TrafficPeakAlert(a) ==
  IF /\ a.hourlyDistribution # <<>>
     /\ PeakHour(a.hourlyDistribution).count * 100 > a.totalConversations * 15
    THEN <<[severity |-> "low", message |-> "High traffic concentration at",
            shown |-> <<PeakHour(a.hourlyDistribution).hour,
                        PeakHour(a.hourlyDistribution).count>>,
            metric |-> "trafficPeak",
            value |-> PeakHour(a.hourlyDistribution).count]>>
    ELSE <<>>

generateAlerts(a) ==
  ErrorRateAlert(a) \o ResolvedRateAlert(a) \o AverageRatingAlert(a)
    \o SentimentAlert(a) \o ResponseTimeAlert(a) \o TrafficPeakAlert(a)

generateRecommendations(a) ==
  LET peakHours ==
        LET busy == SelectSeq(a.hourlyDistribution,
                              LAMBDA h : h.count * 10 > a.totalConversations)
        IN [i \in DOMAIN busy |-> busy[i].hour]
  IN (IF Above(a.errorRate, 5)
        THEN <<[text |-> "Investigate and fix the top error patterns to improve user experience"]>>
        ELSE <<>>)
     \o (IF Below(a.resolvedRate, 70)
           THEN <<[text |-> "Review unresolved conversations to identify gaps in bot knowledge"]>>
           ELSE <<>>)
     \o (IF Len(a.commonIssues) > 0
           THEN <<[text |-> "Create targeted responses for issues",
                   shown |-> <<a.commonIssues[1].pattern, a.commonIssues[1].frequency>>]>>
           ELSE <<>>)
     \o (IF Above(a.userSentiment.negative, 25)
           THEN <<[text |-> "Implement sentiment-based escalation to human agents for negative interactions"]>>
           ELSE <<>>)
     \o (IF Len(peakHours) > 0
           THEN <<[text |-> "Consider scaling resources during peak hours", shown |-> peakHours]>>
           ELSE <<>>)
     \o (IF Len(a.topCategories) > 0 /\ Above(a.topCategories[1].percentage, 30)
           THEN <<[text |-> "Enhance bot capabilities for category",
                   shown |-> <<a.topCategories[1].category,
                               toFixed(a.topCategories[1].percentage, 1)>>]>>
           ELSE <<>>)
     \o (IF Above(a.averageSessionDuration, 600)
           THEN <<[text |-> "Long session durations detected - optimize conversation flow for quicker resolutions"]>>
           ELSE <<>>)

\* Array.prototype.slice(from, to) with 0-based, possibly negative indices.
Slice(seq, from, to) ==
  LET n == Len(seq)
      lo == IF from < 0 THEN Max(0, n + from) ELSE Min(from, n)
      hi == IF to < 0 THEN Max(0, n + to) ELSE Min(to, n)
  IN SubSeq(seq, lo + 1, hi)
CountSum(rows) == SumSeq([i \in DOMAIN rows |-> rows[i].count])

\* The trends analyzeTrends joins with '. ', or its default text.
analyzeTrends(a) ==
  LET weekly == CountSum(TakeLast(a.dailyTrend, 7))
      previousWeekly == CountSum(Slice(a.dailyTrend, -14, -7))
      weekendTraffic == CountSum(Slice(a.hourlyDistribution, 0, 8))
      weekdayTraffic == CountSum(Slice(a.hourlyDistribution, 8, 20))
      trends ==
        (IF Len(a.dailyTrend) > 7 /\ weekly * 10 > previousWeekly * 12
           THEN <<[text |-> "Traffic increased this week",
                   shown |-> toFixed(Fraction((weekly - previousWeekly) * 100,
                                              previousWeekly), 0)]>>
           ELSE <<>>)
        \o (IF weekendTraffic * 10 > weekdayTraffic * 3
              THEN <<[text |-> "Significant weekend activity detected"]>>
              ELSE <<>>)
        \o (IF Len(a.topCategories) >= 2
              THEN <<[text |-> "Top categories",
                      shown |-> [i \in 1..2 |->
                                   <<a.topCategories[i].category,
                                     toFixed(a.topCategories[i].percentage, 0)>>]]>>
              ELSE <<>>)
  IN IF trends = <<>>
       THEN <<[text |-> "No significant trends detected in the current period."]>>
       ELSE trends

getPerformanceHighlights(a) ==
  (IF Above(a.resolvedRate, 80)
     THEN <<[text |-> "Excellent resolution rate", shown |-> toFixed(a.resolvedRate, 1)]>>
     ELSE <<>>)
  \o (IF ~Below(a.averageRating, 4)
        THEN <<[text |-> "High user satisfaction", shown |-> toFixed(a.averageRating, 1)]>>
        ELSE <<>>)
  \o (IF Below(a.errorRate, 2)
        THEN <<[text |-> "Low error rate", shown |-> toFixed(a.errorRate, 1)]>>
        ELSE <<>>)
  \o (IF Above(a.userSentiment.positive, 60)
        THEN <<[text |-> "Positive user sentiment",
                shown |-> toFixed(a.userSentiment.positive, 0)]>>
        ELSE <<>>)
  \o (IF a.responseTimeAnalysis.median < 1000 /\ a.responseTimeAnalysis.median > 0
        THEN <<[text |-> "Fast median response time",
                shown |-> toFixed(Fraction(a.responseTimeAnalysis.median, 1000), 1)]>>
        ELSE <<>>)

\* The sentences of the summary, in order.
generateSummary(a, keyMetrics) ==
  <<[text |-> "During period, the support bot handled conversations from unique users",
     shown |-> <<IF Len(a.dailyTrend) > 0
                   THEN <<a.dailyTrend[1].date, a.dailyTrend[Len(a.dailyTrend)].date>>
                   ELSE <<"current period">>,
                 a.totalConversations, a.uniqueUsers>>],
    [text |-> "The overall resolution rate was", shown |-> toFixed(a.resolvedRate, 1)]>>
  \o (IF Above(a.averageRating, 0)
        THEN <<[text |-> "with an average user rating of",
                shown |-> toFixed(a.averageRating, 1)]>>
        ELSE <<>>)
  \o (IF Above(a.errorRate, 5)
        THEN <<[text |-> "Note: Error rate is elevated at",
                shown |-> toFixed(a.errorRate, 1)]>>
        ELSE <<>>)
  \o (IF Len(a.topCategories) > 0
        THEN <<[text |-> "The most common query category was",
                shown |-> <<a.topCategories[1].category,
                            toFixed(a.topCategories[1].percentage, 0)>>]>>
        ELSE <<>>)

generateInsights(a, previous) ==
  LET keyMetrics == generateKeyMetrics(a, previous)
  IN [summary |-> generateSummary(a, keyMetrics),
      keyMetrics |-> keyMetrics,
      alerts |-> generateAlerts(a),
      recommendations |-> generateRecommendations(a),
      trendsAnalysis |-> analyzeTrends(a),
      performanceHighlights |-> getPerformanceHighlights(a)]

\* ---- the logs analyzeLogsAggregation is applied to ----
LogThanks ==
  [id |-> "l1", conversationId |-> "c1", userId |-> "u1",
   userMessage |-> "Thank you, GREAT help", botResponse |-> "Glad to help",
   timestamp |-> [date |-> <<2024, 1, 31>>, hour |-> 9],
   sessionDuration |-> 120, resolved |-> TRUE, rating |-> 4, category |-> "billing",
   error |-> FALSE, platform |-> "ios",
   metadata |-> [messageCount |-> 4, hasActions |-> TRUE, appVersion |-> "1.0",
                 responseTime |-> 1000]]
LogAngry ==
  [id |-> "l2", conversationId |-> "c1", userId |-> "u2",
   userMessage |-> "Login is BROKEN, this is useless", botResponse |-> "",
   timestamp |-> [date |-> <<2024, 2, 1>>, hour |-> 23],
   sessionDuration |-> 0, resolved |-> TRUE, rating |-> 5, category |-> "technical",
   error |-> FALSE, platform |-> "android",
   metadata |-> [appVersion |-> "1.1", responseTime |-> 6000]]
LogUnrated ==
  [id |-> "l3", userMessage |-> "hello",
   timestamp |-> [date |-> <<2023, 12, 31>>, hour |-> 0],
   resolved |-> TRUE, rating |-> 0, error |-> FALSE,
   metadata |-> [messageCount |-> 2, responseTime |-> 0]]
LogFailed ==
  [id |-> "l4", conversationId |-> "c2", userMessage |-> "good but bad",
   sessionDuration |-> 60, resolved |-> FALSE, rating |-> 2, category |-> "billing",
   error |-> TRUE, metadata |-> [responseTime |-> 200]]
LogFlagless ==
  [id |-> "l5", userMessage |-> "", platform |-> "ios",
   timestamp |-> [date |-> <<2024, 1, 31>>, hour |-> 9]]
LogBare == [id |-> "l6"]
LogShapes == {LogThanks, LogAngry, LogUnrated, LogFailed, LogFlagless, LogBare}

\* Long lists: log i has its own date (January 1 2024 onwards, out of order),
\* its own response time, alternating flags, one of 12 categories, one of 11
\* platforms and one of 12 app versions.
DayOf(k) == IF k < 31 THEN <<2024, 1, k + 1>> ELSE <<2024, 2, k - 30>>
LongLog(i) ==
  [id |-> ToString(i),
   timestamp |-> [date |-> DayOf((i * 7) % ManyLogs), hour |-> i % 24],
   resolved |-> (i % 2 = 0), error |-> (i % 3 = 0),
   category |-> "category " \o ToString((i * 5) % 12),
   platform |-> "platform " \o ToString((i * 3) % 11),
   metadata |-> [responseTime |-> 100 * (((i * 5) % ManyLogs) + 1),
                 appVersion |-> "1." \o ToString((i * 7) % 12)]]
\* A fortnight of logs: one log on each of 14 days and a second one on each of
\* the last 7.
BusyWeek ==
  [i \in 1..21 |->
     [id |-> ToString(i),
      timestamp |-> [date |-> DayOf(IF i <= 14 THEN i - 1 ELSE i - 8), hour |-> 12]]]
\* Lists drawn from the shapes, long lists, lists of 8 and 9 days with one log
\* each, and the fortnight.
LogLists ==
  UNION {[1..n -> LogShapes] : n \in 0..MaxLogs}
    \cup {[i \in 1..n |-> LongLog(i)] : n \in (ManyLogs - 2)..ManyLogs}
    \cup {[i \in 1..n |-> LongLog(i)] : n \in 8..9}
    \cup {BusyWeek}

\* The logs of the period before, whose Analytics a caller of generateInsights
\* may pass as previousAnalytics; runAnalysis passes none.
PreviousLogLists ==
  {<<>>, <<LogThanks>>, <<LogFailed, LogThanks, LogThanks>>,
   <<LogAngry, LogFailed, LogFailed, LogThanks>>,
   [i \in 1..(ManyLogs - 2) |-> LongLog(i)]}
PreviousChoices ==
  {<<>>} \cup {<<analyzeLogsAggregation(list)>> : list \in PreviousLogLists}

LogIdle ==
  /\ chatLogs = <<>>
  /\ analyticsPc = "notCalled"
  /\ analytics = <<>>
  /\ previousAnalytics = <<>>
  /\ insights = <<>>

\* analyzeLogsAggregation(logs) is called and returns.
CallAnalyzeLogsAggregation ==
  /\ analyticsPc = "notCalled"
  /\ analyticsPc' = "analysed"
  /\ analytics' = analyzeLogsAggregation(chatLogs)
  /\ UNCHANGED <<chatLogs, previousAnalytics, insights>>
  /\ UNCHANGED <<runVars, sessVars, fetchVars, aggVars>>

\* runAnalysis: fetchLogs has resolved, and analyzeLogsAggregation(logs) is
\* called on its logs and returns.
AnalyseFetchedLogs ==
  /\ logsPc = "resolved"
  /\ analyticsPc = "notCalled"
  /\ chatLogs' = logs
  /\ analyticsPc' = "analysed"
  /\ analytics' = analyzeLogsAggregation(logs)
  /\ UNCHANGED <<previousAnalytics, insights>>
  /\ UNCHANGED <<runVars, sessVars, fetchVars, aggVars>>

\* generateInsights(analytics, previousAnalytics) is called and returns;
\* runAnalysis calls it without previous analytics.
CallGenerateInsights ==
  /\ analyticsPc = "analysed"
  /\ analyticsPc' = "reported"
  /\ insights' = generateInsights(analytics, previousAnalytics)
  /\ UNCHANGED <<chatLogs, analytics, previousAnalytics>>
  /\ UNCHANGED <<runVars, sessVars, fetchVars, aggVars>>

----------------------------------------------------------------------------
\* The scheduled report run.
Init ==
  /\ cronPc = "idle"
  /\ runOutcome = "none"
  /\ openaiAvailable \in BOOLEAN
  /\ smtpConfigured \in BOOLEAN
  /\ RunIdle
  /\ SessIdle
  /\ FetchIdle
  /\ AggIdle
  /\ LogIdle

Next ==
  \/ CronFire
  \/ FetchResolves
  \/ FetchRejects
  \/ \E s \in SessionIds : SubCallSucceeds(s)
  \/ \E s \in SessionIds : SubCallFails(s)
  \/ PauseElapses
  \/ EmailSettles

Spec == Init /\ [][Next]_vars

\* analyzeSessions called on any list of sessions.
AnalyzeSessionsNext ==
  \/ CallAnalyzeSessions
  \/ \E s \in SessionIds : SubCallSucceeds(s)
  \/ \E s \in SessionIds : SubCallFails(s)
  \/ PauseElapses
  \/ EmailSettles

AnalyzeSessionsSpec == Init /\ [][AnalyzeSessionsNext]_vars

\* One analyzeSession call.
SessionNext ==
  \/ CallAnalyzeSession
  \/ \E k \in SubCallNames : SubCallResponds(k)

SessionInit ==
  /\ cronPc = "idle"
  /\ runOutcome = "none"
  /\ openaiAvailable = TRUE
  /\ smtpConfigured = FALSE
  /\ RunIdle
  /\ SessIdle
  /\ FetchIdle
  /\ AggIdle
  /\ LogIdle

SessionSpec == SessionInit /\ [][SessionNext]_vars

\* One fetchLogs call against a store.
FetchNext ==
  \/ CallFetchLogs
  \/ SessionsQueryResolves
  \/ SessionsQueryFails
  \/ MessagesQueryResolves
  \/ MessagesQueryFails

FetchInit ==
  /\ cronPc = "idle"
  /\ runOutcome = "none"
  /\ openaiAvailable = TRUE
  /\ smtpConfigured = FALSE
  /\ RunIdle
  /\ SessIdle
  /\ storeSessions \in Stores
  /\ FetchCallIdle
  /\ AggIdle
  /\ LogIdle

FetchSpec == FetchInit /\ [][FetchNext]_vars

\* aggregateAnalyses applied, up to MaxAggCalls times, to a list of analyses.
AggNext == CallAggregateAnalyses

AggInit ==
  /\ cronPc = "idle"
  /\ runOutcome = "none"
  /\ openaiAvailable = TRUE
  /\ smtpConfigured = TRUE
  /\ RunIdle
  /\ SessIdle
  /\ FetchIdle
  /\ aggInput \in AnalysisLists
  /\ aggSessions \in SessionLists(Len(aggInput))
  /\ aggAnalyses = LoadAnalyses(aggInput).list
  /\ heapObjs = LoadAnalyses(aggInput).objs
  /\ heapArrs = LoadAnalyses(aggInput).arrs
  /\ aggResults = <<>>
  /\ LogIdle

AggSpec == AggInit /\ [][AggNext]_vars

\* analyzeLogsAggregation applied to a list of logs, then generateInsights to
\* its result (runAnalysis).
LogNext ==
  \/ CallAnalyzeLogsAggregation
  \/ CallGenerateInsights

LogInit ==
  /\ cronPc = "idle"
  /\ runOutcome = "none"
  /\ openaiAvailable = TRUE
  /\ smtpConfigured = TRUE
  /\ RunIdle
  /\ SessIdle
  /\ FetchIdle
  /\ AggIdle
  /\ chatLogs \in LogLists
  /\ analyticsPc = "notCalled"
  /\ analytics = <<>>
  /\ previousAnalytics \in PreviousChoices
  /\ insights = <<>>

LogSpec == LogInit /\ [][LogNext]_vars

\* runAnalysis: fetchLogs, then analyzeLogsAggregation, then generateInsights.
PipelineNext ==
  \/ FetchNext
  \/ AnalyseFetchedLogs
  \/ CallGenerateInsights

PipelineSpec == FetchInit /\ [][PipelineNext]_vars

\* The same run under the scheduling the claims about termination assume:
\* every completion call in flight eventually settles and every pause timer
\* eventually fires (the Node event loop runs every ready callback).
FairSpec ==
  /\ Spec
  /\ \A s \in SessionIds : WF_vars(SubCallSucceeds(s) \/ SubCallFails(s))
  /\ WF_vars(PauseElapses)

----------------------------------------------------------------------------
\* Claims about the scheduled run and analyzeSessions.

InFlight == {s \in SessionIds : pendingCalls[s] > 0}
Running == {s \in SessionIds : sessState[s] = "running"}
Started(s) == sessState[s] # "idle"

\* C1: during analyzeSessions at most 3 sessions have an analysis in flight
\* (neither more than 3 unsettled analyzeSession promises nor more than 3
\* sessions with completion calls outstanding), and a session of batch k+1 is
\* started only when every session of the earlier batches has resolved with no
\* call outstanding and the pause after each earlier batch has elapsed.
C1_BatchCapAndOrder ==
  /\ Cardinality(Running) <= 3
  /\ Cardinality(InFlight) <= 3
  /\ \A s \in SessionIds :
       Started(s) =>
         /\ timersFired >= (s - 1) \div 3
         /\ \A t \in SessionIds :
              (t - 1) \div 3 < (s - 1) \div 3 =>
                sessState[t] = "resolved" /\ pendingCalls[t] = 0

\* C1 witness: a session of the second batch is running.
C1_Witness ==
  /\ Len(sessions) = 4
  /\ sessState[4] = "running"
  /\ timersFired = 1

\* C2: once the analysis of a session has failed, analyzeSessions has rejected
\* (it never resolves and the caller receives no list, although the analyses of
\* earlier batches were collected), and no session of a later batch is started.
C2_FailurePropagates ==
  \A s \in SessionIds :
    sessState[s] = "rejected" =>
      /\ asPc = "rejected"
      /\ aggregated = <<>>
      /\ cronPc = "done" /\ runOutcome = "failed"
      /\ \A t \in SessionIds :
           (t - 1) \div 3 > (s - 1) \div 3 =>
             sessState[t] = "idle" /\ pendingCalls[t] = 0

\* C2 witness: the first batch succeeded and was collected, a session of the
\* second batch failed.
C2_Witness ==
  /\ Len(analyses) = 3
  /\ sessState[4] = "rejected"
  /\ asPc = "rejected"

\* C4: under FairSpec a started analyzeSessions run eventually resolves or
\* rejects; it resolves only with one analysis per session, all batches
\* processed, and rejects only when a session's analysis failed.
C4_RunTerminates ==
  /\ [](asPc = "resolved" =>
          /\ Len(analyses) = Len(sessions)
          /\ \A s \in 1..Len(sessions) : sessState[s] = "resolved")
  /\ [](asPc = "rejected" => \E s \in SessionIds : sessState[s] = "rejected")
  /\ (asPc = "awaitBatch") ~> (asPc \in {"resolved", "rejected"})

\* C4 witness: a run of two batches has resolved.
C4_Witness ==
  /\ asPc = "resolved"
  /\ Len(sessions) = 4
  /\ timersFired = 1

\* C5: in a scheduled run the report email is requested only after every fetched
\* session was analysed successfully and the aggregate was built from all of
\* them; after a failed analysis there is neither aggregate nor email; a run
\* with zero sessions sends no email.
C5_EmailOnlyAfterFullAggregate ==
  /\ emailRequested =>
       /\ Len(sessions) > 0
       /\ \A s \in 1..Len(sessions) : sessState[s] = "resolved"
       /\ aggregated = <<sessions>>
  /\ (\E s \in SessionIds : sessState[s] = "rejected") =>
       aggregated = <<>> /\ ~emailRequested
  /\ (cronPc = "done" /\ Len(sessions) = 0) => ~emailRequested /\ aggregated = <<>>

\* C5 witness: the email of a run over four sessions has been requested.
C5_Witness ==
  /\ emailRequested
  /\ Len(sessions) = 4
  /\ aggregated = <<sessions>>

----------------------------------------------------------------------------
\* Claims about analyzeSession.

SubCallFailed(k) == subResp[k] \in {ApiError, NotJson}

\* C3: analyzeSession issues its five sub-calls together; it returns a
\* ConversationAnalysis only when all five have succeeded, and as soon as one of
\* them has failed it has failed and returns nothing, in every order of
\* completion.
C3_AllOrNothingJoin ==
  /\ sessPc # "notCalled" => \A k \in SubCallNames : subResp[k] # Idle
  /\ sessResult # <<>> =>
       /\ sessPc = "resolved"
       /\ \A k \in SubCallNames : Settled(subResp[k]) /\ ~SubCallFailed(k)
  /\ sessPc = "resolved" => sessResult # <<>>
  /\ (\E k \in SubCallNames : SubCallFailed(k)) =>
       sessPc = "rejected" /\ sessResult = <<>>

\* C3 witness: four sub-calls succeeded, the request of the fifth was rejected.
C3_Witness ==
  /\ subResp["identifyProblemTypes"] = ApiError
  /\ \A k \in SubCallNames \ {"identifyProblemTypes"} :
       subResp[k] = JsonText(FullObject(k))
  /\ sessPc = "rejected"

\* Every judgment field the prompts request is present in analysis a.
HasAllJudgmentFields(a) ==
  /\ FirstRequestKeys \subseteq DOMAIN a.firstUserRequest
  /\ FlowKeys \subseteq DOMAIN a.conversationFlow
  /\ EndingKeys \subseteq DOMAIN a.endingAnalysis
  /\ \A i \in DOMAIN a.improvementSuggestions :
       SuggestionKeys \subseteq DOMAIN a.improvementSuggestions[i]
  /\ \A i \in DOMAIN a.problemTypes :
       ProblemKeys \subseteq DOMAIN a.problemTypes[i]

\* C6 (as claimed): a response that is not JSON, or is JSON lacking requested
\* keys (an empty object and empty content included), makes analyzeSession fail,
\* and a returned ConversationAnalysis never lacks a requested judgment field.
C6_MalformedResponseIsParseFailure ==
  /\ ( /\ \A k \in SubCallNames : Settled(subResp[k])
       /\ \E k \in SubCallNames : subResp[k] # JsonText(FullObject(k)) ) =>
       sessPc = "rejected"
  /\ sessResult # <<>> => HasAllJudgmentFields(sessResult[1])

----------------------------------------------------------------------------
\* Claims about the document-store fetch.

\* C7 (as claimed): a failed sessions or messages query aborts
\* fetchEnrichedSessions and fetchLogs, and no session is delivered with a
\* message list other than the one the store holds for it.
C7_StoreFailureAborts ==
  /\ failedMsgFetches # {} => fetchPc = "rejected" /\ logsPc = "rejected"
  /\ \A i \in DOMAIN enriched :
       enriched[i].messages = storeSessions[enriched[i].id]

----------------------------------------------------------------------------
\* Claims about aggregateAnalyses.

\* C8 (as claimed): the aggregation never fails; in particular no call of
\* aggregateAnalyses on analyses analyzeSession can return throws, also when a
\* flow judgment has no misunderstandings list or a suggestion has no issue.
C8_AggregationNeverFails ==
  \A c \in DOMAIN aggResults : ~aggResults[c].threw

\* The positions <<analysis, suggestion>> of the input suggestions.
InputSuggestionAt ==
  UNION {{<<i, j>> : j \in DOMAIN aggInput[i].improvementSuggestions} :
           i \in DOMAIN aggInput}
SuggestionAt(pos) == aggInput[pos[1]].improvementSuggestions[pos[2]]
SamePrefix(s, u) ==
  /\ s.category = u.category
  /\ Len(s.issue) >= 50
  /\ Len(u.issue) >= 50
  /\ SubSeq(s.issue, 1, 50) = SubSeq(u.issue, 1, 50)
\* Two analyses each have a suggestion, of identical category and with a shared
\* 50-character issue prefix but different examples, and no other suggestion of
\* the input goes with them.
MergePairs ==
  {pq \in InputSuggestionAt \X InputSuggestionAt :
     /\ pq[1][1] < pq[2][1]
     /\ SamePrefix(SuggestionAt(pq[1]), SuggestionAt(pq[2]))
     /\ SuggestionAt(pq[1]).examples # SuggestionAt(pq[2]).examples
     /\ \A o \in InputSuggestionAt :
          SamePrefix(SuggestionAt(o), SuggestionAt(pq[1])) => o \in {pq[1], pq[2]}}
\* The returned suggestions that stand for suggestion s.
MergedItems(r, s) ==
  {k \in DOMAIN r.returned.topImprovements :
     SamePrefix(r.returned.topImprovements[k], s)}
MergedEntries(r, s) ==
  {k \in DOMAIN r.improvementMap :
     r.improvementMap[k].key = s.category \o "-" \o SubSeq(s.issue, 1, 50)}
UnionCapped(s, u) == Take(Dedup(s.examples \o u.examples), 3)

\* C9 (amended): aggregating two analyses whose suggestions have identical
\* category and a shared 50-character issue prefix but different examples
\* returns exactly one suggestion for them in topImprovements, whose example
\* list is the deduplicated union of both lists capped at 3; the merge count 2
\* is the frequency of the single improvementMap entry and is not a field of
\* the returned suggestion.
C9_MergedSuggestion ==
  \A c \in DOMAIN aggResults : ~aggResults[c].threw =>
    \A pq \in MergePairs :
      LET r == aggResults[c]
          s == SuggestionAt(pq[1])
          u == SuggestionAt(pq[2])
      IN /\ Cardinality(MergedItems(r, s)) = 1
         /\ \A k \in MergedItems(r, s) :
              /\ r.returned.topImprovements[k].examples = UnionCapped(s, u)
              /\ "frequency" \notin DOMAIN r.returned.topImprovements[k]
         /\ Cardinality(MergedEntries(r, s)) = 1
         /\ \A k \in MergedEntries(r, s) : r.improvementMap[k].frequency = 2

\* C9 witness: a call has merged two such suggestions whose example lists
\* overlap and together exceed three.
C9_Witness ==
  /\ aggResults # <<>>
  /\ ~aggResults[1].threw
  /\ \E pq \in MergePairs :
       Len(Dedup(SuggestionAt(pq[1]).examples \o SuggestionAt(pq[2]).examples)) > 3

\* C9 (as claimed): the one merged suggestion returned carries frequency == 2
\* and the deduplicated union of the example lists capped at 3.
C9_MergedSuggestionHasFrequency ==
  \A c \in DOMAIN aggResults : ~aggResults[c].threw =>
    \A pq \in MergePairs :
      LET r == aggResults[c]
          s == SuggestionAt(pq[1])
          u == SuggestionAt(pq[2])
      IN /\ Cardinality(MergedItems(r, s)) = 1
         /\ \A k \in MergedItems(r, s) :
              /\ r.returned.topImprovements[k].examples = UnionCapped(s, u)
              /\ "frequency" \in DOMAIN r.returned.topImprovements[k]
              /\ r.returned.topImprovements[k].frequency = 2

\* The report parts C10 compares between calls.
ReportParts(r) ==
  IF r.threw THEN <<"threw">>
  ELSE <<r.returned.commonFirstRequests, r.returned.conversationPatterns,
         r.returned.endingPatterns, r.returned.topImprovements,
         r.returned.problemTypeDistribution>>

\* C10: aggregateAnalyses leaves its inputs unchanged: after any number of
\* calls every analysis, with the example list of every suggestion (merged
\* ones included), has the value it had before, no step changes the sessions or
\* their messages, and every later call on the same analyses yields the same
\* patterns, improvements and problem-type distribution as the first.
C10_InputsUnchanged ==
  /\ [](\A i \in DOMAIN aggAnalyses :
          AnalysisValue(aggAnalyses[i], heapObjs, heapArrs) = aggInput[i])
  /\ [](\A c \in DOMAIN aggResults :
          ReportParts(aggResults[c]) = ReportParts(aggResults[1]))
  /\ [][aggSessions' = aggSessions /\ aggAnalyses' = aggAnalyses]_vars

\* C10 witness: the analyses were aggregated twice, with sessions given, and
\* the calls merged the examples of suggestions.
C10_Witness ==
  /\ Len(aggResults) >= 2
  /\ ~aggResults[2].threw
  /\ aggSessions # <<>>
  /\ \E k \in DOMAIN aggResults[2].improvementMap :
       aggResults[2].improvementMap[k].frequency >= 2

\* The intents of the input and the analyses having a given intent.
IntentsOf == {aggInput[i].firstUserRequest.intent : i \in DOMAIN aggInput}
GroupOf(intent) ==
  {i \in DOMAIN aggInput : aggInput[i].firstUserRequest.intent = intent}
RECURSIVE SumClarity(_)
SumClarity(group) ==
  IF group = {} THEN 0
  ELSE LET i == CHOOSE i \in group : TRUE
       IN aggInput[i].firstUserRequest.clarity + SumClarity(group \ {i})
\* Fraction f has the value num / den.
FractionIs(f, num, den) == f.den # 0 /\ den # 0 /\ f.num * den = num * f.den

\* C11: the request patterns returned have one entry per distinct intent
\* string (compared exactly), at most 10 of them; an entry's count is the number
\* of analyses with that intent, its percentage count / total * 100 and its
\* averageClarity the mean of the group's clarity scores; the entries are in
\* descending order of count and no intent left out has a higher count than one
\* kept.
C11_RequestPatterns ==
  \A c \in DOMAIN aggResults : ~aggResults[c].threw =>
    LET rows == aggResults[c].returned.commonFirstRequests
    IN /\ Len(rows) = Min(10, Cardinality(IntentsOf))
       /\ \A k \in DOMAIN rows :
            /\ rows[k].pattern \in IntentsOf
            /\ rows[k].count = Cardinality(GroupOf(rows[k].pattern))
            /\ FractionIs(rows[k].percentage, rows[k].count * 100, Len(aggInput))
            /\ FractionIs(rows[k].averageClarity,
                          SumClarity(GroupOf(rows[k].pattern)), rows[k].count)
       /\ \A k, l \in DOMAIN rows :
            k < l => /\ rows[k].pattern # rows[l].pattern
                     /\ rows[k].count >= rows[l].count
       /\ \A intent \in IntentsOf :
            (\A k \in DOMAIN rows : rows[k].pattern # intent) =>
              \A k \in DOMAIN rows : rows[k].count >= Cardinality(GroupOf(intent))

\* C11 witness: two analyses with the same intent and clarity 80 and 60 were
\* aggregated: the entry has count 2 and averageClarity 70.
C11_Witness ==
  /\ aggResults # <<>>
  /\ ~aggResults[1].threw
  /\ \E k \in DOMAIN aggResults[1].returned.commonFirstRequests :
       LET row == aggResults[1].returned.commonFirstRequests[k]
       IN /\ row.count = 2
          /\ FractionIs(row.averageClarity, 70, 1)
          /\ {aggInput[i].firstUserRequest.clarity : i \in GroupOf(row.pattern)} = {80, 60}

\* The sessions given that carry the id of analysis i.
SessionsOf(i) ==
  {k \in DOMAIN aggSessions : aggSessions[k].id = aggInput[i].sessionId}

\* C12: a call of aggregateAnalyses that returns has built one transcript per
\* analysis, in the order of the analyses; the transcript of an analysis with
\* no session of its id among those given has no messages, platform "unknown",
\* message count 0 and duration 0; any other has the messages of the session
\* with its id, in their order.  (That an absent session raises no error is
\* part of this: the call then returns as it does with the session given.)
C12_Transcripts ==
  /\ \A c \in DOMAIN aggResults : ~aggResults[c].threw =>
       LET ts == aggResults[c].returned.conversationTranscripts
       IN /\ Len(ts) = Len(aggInput)
          /\ \A i \in DOMAIN ts :
               /\ ts[i].sessionId = aggInput[i].sessionId
               /\ ts[i].analysis = i
               /\ SessionsOf(i) = {} =>
                    /\ ts[i].messages = <<>>
                    /\ ts[i].platform = "unknown"
                    /\ ts[i].messageCount = 0
                    /\ ts[i].duration = 0
               /\ \A k \in SessionsOf(i) :
                    /\ Len(ts[i].messages) = Len(aggSessions[k].messages)
                    /\ \A m \in DOMAIN ts[i].messages :
                         /\ ts[i].messages[m].content = aggSessions[k].messages[m].content
                         /\ ts[i].messages[m].isUser = aggSessions[k].messages[m].is_user
  /\ \A d \in DOMAIN aggResults :
       aggResults[d].threw =>
         \E i \in DOMAIN aggInput :
           \/ "misunderstandings" \notin DOMAIN aggInput[i].conversationFlow
           \/ \E j \in DOMAIN aggInput[i].improvementSuggestions :
                "issue" \notin DOMAIN aggInput[i].improvementSuggestions[j]

\* C12 witness: two analyses were aggregated with the session of the first
\* only: the first transcript has that session's messages, the second none.
C12_Witness ==
  /\ aggResults # <<>>
  /\ ~aggResults[1].threw
  /\ Len(aggInput) = 2
  /\ SessionsOf(1) # {}
  /\ SessionsOf(2) = {}
  /\ Len(aggResults[1].returned.conversationTranscripts[1].messages) = 2
  /\ aggResults[1].returned.conversationTranscripts[2].messages = <<>>

----------------------------------------------------------------------------
\* Claims about analyzeLogsAggregation.

Analysed == analyticsPc \in {"analysed", "reported"}
FlagTrue(flag) == {i \in DOMAIN chatLogs : flag \in DOMAIN chatLogs[i] /\ chatLogs[i][flag] = TRUE}
\* Fraction f lies in [0, 100].
IsPercentage(f) == f.den > 0 /\ 0 <= f.num /\ f.num <= 100 * f.den

\* C13: resolvedRate is the number of logs with resolved true over the number
\* of all logs (those without the flag included) times 100, errorRate
\* likewise; both lie in [0, 100] and both are 0 for the empty list.
C13_Rates ==
  Analysed =>
    /\ IsPercentage(analytics.resolvedRate)
    /\ IsPercentage(analytics.errorRate)
    /\ IF Len(chatLogs) = 0
         THEN /\ FractionIs(analytics.resolvedRate, 0, 1)
              /\ FractionIs(analytics.errorRate, 0, 1)
         ELSE /\ FractionIs(analytics.resolvedRate,
                            Cardinality(FlagTrue("resolved")) * 100, Len(chatLogs))
              /\ FractionIs(analytics.errorRate,
                            Cardinality(FlagTrue("error")) * 100, Len(chatLogs))

\* C13 witness: of two logs analysed one is resolved and one has no resolved
\* flag: the rate is 50.
C13_Witness ==
  /\ Analysed
  /\ Len(chatLogs) = 2
  /\ \E i \in DOMAIN chatLogs : "resolved" \notin DOMAIN chatLogs[i]
  /\ FractionIs(analytics.resolvedRate, 50, 1)

Timestamped == {i \in DOMAIN chatLogs : "timestamp" \in DOMAIN chatLogs[i]}

\* C14: the hourly distribution has 24 entries, entry h (from 0) being hour h,
\* every count is at least 0 and the counts add up to the number of logs that
\* have a timestamp.
C14_HourlyDistribution ==
  Analysed =>
    LET hd == analytics.hourlyDistribution
    IN /\ Len(hd) = 24
       /\ \A h \in DOMAIN hd : hd[h].hour = h - 1 /\ hd[h].count >= 0
       /\ SumSeq([h \in DOMAIN hd |-> hd[h].count]) = Cardinality(Timestamped)

\* C14 witness: logs were analysed of which one has no timestamp and two fall
\* in the same hour.
C14_Witness ==
  /\ Analysed
  /\ Timestamped # DOMAIN chatLogs
  /\ \E h \in DOMAIN analytics.hourlyDistribution :
       analytics.hourlyDistribution[h].count = 2

DatesOf == {chatLogs[i].timestamp.date : i \in Timestamped}

\* C15: the daily trend has one entry per distinct date of the logs, at most
\* 30, in strictly ascending order of date; with more than 30 dates it has
\* exactly 30 and every date left out is before every date kept; in each
\* entry resolved and errors are at most count.
C15_DailyTrend ==
  Analysed =>
    LET dt == analytics.dailyTrend
    IN /\ Len(dt) = Min(30, Cardinality(DatesOf))
       /\ \A k \in DOMAIN dt :
            /\ dt[k].date \in DatesOf
            /\ dt[k].count >= 1
            /\ dt[k].resolved <= dt[k].count
            /\ dt[k].errors <= dt[k].count
       /\ \A k, l \in DOMAIN dt : k < l => DateBefore(dt[k].date, dt[l].date)
       /\ \A date \in DatesOf :
            (\A k \in DOMAIN dt : dt[k].date # date) =>
              \A k \in DOMAIN dt : DateBefore(date, dt[k].date)

\* C15 witness: logs of more than 30 dates were analysed.
C15_Witness ==
  /\ Analysed
  /\ Cardinality(DatesOf) > 30
  /\ Len(analytics.dailyTrend) = 30

\* The logs whose response time is collected, and value v being the one at
\* index k (from 0) of their times in ascending order.
Timed ==
  {i \in DOMAIN chatLogs :
     /\ "metadata" \in DOMAIN chatLogs[i]
     /\ "responseTime" \in DOMAIN chatLogs[i].metadata
     /\ chatLogs[i].metadata.responseTime # 0}
TimeOf(i) == chatLogs[i].metadata.responseTime
IsAtRank(v, k) ==
  /\ \E i \in Timed : TimeOf(i) = v
  /\ Cardinality({i \in Timed : TimeOf(i) < v}) <= k
  /\ k < Cardinality({i \in Timed : TimeOf(i) <= v})

\* C16: with at least one response time, median, p95 and p99 are the times
\* at indices floor(n/2), floor(n*0.95) and floor(n*0.99) of the ascending
\* order (so each is one of the times) and median <= p95 <= p99; with none,
\* average, median, p95 and p99 are 0.
C16_ResponseTimes ==
  Analysed =>
    LET rt == analytics.responseTimeAnalysis
        n == Cardinality(Timed)
    IN IF n = 0
         THEN /\ FractionIs(rt.average, 0, 1)
              /\ rt.median = 0 /\ rt.p95 = 0 /\ rt.p99 = 0
         ELSE /\ IsAtRank(rt.median, n \div 2)
              /\ IsAtRank(rt.p95, (n * 95) \div 100)
              /\ IsAtRank(rt.p99, (n * 99) \div 100)
              /\ rt.median <= rt.p95
              /\ rt.p95 <= rt.p99
              /\ (\A i, j \in Timed : TimeOf(i) = TimeOf(j)) =>
                   rt.median = rt.p95 /\ rt.p95 = rt.p99

\* C16 witness: enough response times were analysed, in no order, for the
\* three statistics to differ.
C16_Witness ==
  /\ Analysed
  /\ analytics.responseTimeAnalysis.median < analytics.responseTimeAnalysis.p95
  /\ analytics.responseTimeAnalysis.p95 < analytics.responseTimeAnalysis.p99

\* The classified logs (those with a user message) and their scores.
Classified ==
  {i \in DOMAIN chatLogs :
     "userMessage" \in DOMAIN chatLogs[i] /\ chatLogs[i].userMessage # ""}
ScoreOf(i) == sentimentScore(chatLogs[i].userMessage)

Qualifying(field) ==
  {i \in DOMAIN chatLogs : field \in DOMAIN chatLogs[i] /\ chatLogs[i][field] > 0}
RECURSIVE SumOver(_, _)
SumOver(indices, field) ==
  IF indices = {} THEN 0
  ELSE LET i == CHOOSE i \in indices : TRUE
       IN chatLogs[i][field] + SumOver(indices \ {i}, field)
IsMeanOf(f, field) ==
  IF Qualifying(field) = {} THEN FractionIs(f, 0, 1)
  ELSE FractionIs(f, SumOver(Qualifying(field), field), Cardinality(Qualifying(field)))

\* C18: averageRating is the mean of the ratings that are present and above 0,
\* averageSessionDuration the mean of the durations that are present and above
\* 0, and each is 0 when no log qualifies.
C18_Averages ==
  Analysed =>
    /\ IsMeanOf(analytics.averageRating, "rating")
    /\ IsMeanOf(analytics.averageSessionDuration, "sessionDuration")

\* C18 witness: three logs, all resolved and without error, with ratings 4, 5
\* and 0 were analysed: resolvedRate 100, errorRate 0, averageRating 4.5.
C18_Witness ==
  /\ Analysed
  /\ Len(chatLogs) = 3
  /\ \A i \in DOMAIN chatLogs :
       /\ {"resolved", "error", "rating"} \subseteq DOMAIN chatLogs[i]
       /\ chatLogs[i].resolved = TRUE
       /\ chatLogs[i].error = FALSE
  /\ <<chatLogs[1].rating, chatLogs[2].rating, chatLogs[3].rating>> = <<4, 5, 0>>
  /\ FractionIs(analytics.resolvedRate, 100, 1)
  /\ FractionIs(analytics.errorRate, 0, 1)
  /\ FractionIs(analytics.averageRating, 9, 2)

\* C19: for the empty list of logs every count of the Analytics is 0, every
\* rate and average is 0, every breakdown list is empty and the hourly
\* distribution is 24 entries of count 0.
C19_EmptyAnalytics ==
  (Analysed /\ chatLogs = <<>>) =>
    /\ analytics.totalConversations = 0
    /\ analytics.uniqueUsers = 0
    /\ analytics.sessionsWithActions = 0
    /\ analytics.totalMessages = 0
    /\ FractionIs(analytics.averageSessionDuration, 0, 1)
    /\ FractionIs(analytics.averageRating, 0, 1)
    /\ FractionIs(analytics.resolvedRate, 0, 1)
    /\ FractionIs(analytics.errorRate, 0, 1)
    /\ FractionIs(analytics.averageMessagesPerSession, 0, 1)
    /\ FractionIs(analytics.averageMessageLength, 0, 1)
    /\ FractionIs(analytics.userSentiment.positive, 0, 1)
    /\ FractionIs(analytics.userSentiment.neutral, 0, 1)
    /\ FractionIs(analytics.userSentiment.negative, 0, 1)
    /\ FractionIs(analytics.responseTimeAnalysis.average, 0, 1)
    /\ analytics.responseTimeAnalysis.median = 0
    /\ analytics.responseTimeAnalysis.p95 = 0
    /\ analytics.responseTimeAnalysis.p99 = 0
    /\ analytics.topCategories = <<>>
    /\ analytics.dailyTrend = <<>>
    /\ analytics.commonIssues = <<>>
    /\ analytics.platformDistribution = <<>>
    /\ analytics.appVersions = <<>>
    /\ Len(analytics.hourlyDistribution) = 24
    /\ \A h \in DOMAIN analytics.hourlyDistribution :
         analytics.hourlyDistribution[h] = [hour |-> h - 1, count |-> 0]

\* C19 witness: the empty list has been analysed.
C19_Witness ==
  /\ Analysed
  /\ chatLogs = <<>>
  /\ analytics.totalConversations = 0

\* ---- Claims about generateInsights ----
Reported == analyticsPc = "reported"
ErrorRateAlerts(alerts) == SelectSeq(alerts, LAMBDA x : x.metric = "errorRate")
OtherAlerts(alerts) == SelectSeq(alerts, LAMBDA x : x.metric # "errorRate")
\* Error rates on both sides of the threshold, and on it.
OtherErrorRates ==
  {Fraction(0, 1), Fraction(5, 1), Fraction(99, 10), Fraction(10, 1),
   Fraction(101, 10), Fraction(100, 3), Fraction(50, 1), Fraction(100, 1)}

\* C20: the alerts returned hold the high-severity error-rate alert, once,
\* exactly when errorRate is above 10; and for the same analytics with any
\* other error rate, generateAlerts holds that alert exactly when that rate is
\* above 10, while every other alert is the same, in the same order.
C20_ErrorRateAlert ==
  Reported =>
    /\ Len(ErrorRateAlerts(insights.alerts)) = (IF Above(analytics.errorRate, 10) THEN 1 ELSE 0)
    /\ \A x \in DOMAIN insights.alerts :
         insights.alerts[x].metric = "errorRate" =>
           /\ insights.alerts[x].severity = "high"
           /\ insights.alerts[x].value = analytics.errorRate
    /\ \A e \in OtherErrorRates :
         LET other == generateAlerts([analytics EXCEPT !.errorRate = e])
         IN /\ Len(ErrorRateAlerts(other)) = (IF Above(e, 10) THEN 1 ELSE 0)
            /\ OtherAlerts(other) = OtherAlerts(insights.alerts)

\* C20 witness: a report whose error rate is above 10 has the error-rate alert
\* next to another alert, and the same analytics with error rate 10 would not
\* have it.
C20_Witness ==
  /\ Reported
  /\ Above(analytics.errorRate, 10)
  /\ Len(ErrorRateAlerts(insights.alerts)) = 1
  /\ Len(OtherAlerts(insights.alerts)) >= 2
  /\ ErrorRateAlerts(generateAlerts([analytics EXCEPT !.errorRate = Fraction(10, 1)])) = <<>>

\* ---- Claims about the improvement suggestions of aggregateAnalyses ----
\* The input suggestions in the order forEach visits them.
VisitedBefore(p, q) == p[1] < q[1] \/ (p[1] = q[1] /\ p[2] < q[2])
\* The category, a "-" and the first 50 characters of the issue; and the first
\* 50 characters of category, "-" and issue joined.
IssueKeyText(s) == s.category \o "-" \o SubSeq(s.issue, 1, Min(50, Len(s.issue)))
JoinedKeyText(s) ==
  LET joined == s.category \o "-" \o s.issue
  IN SubSeq(joined, 1, Min(50, Len(joined)))
IssueKeyOf == [p \in InputSuggestionAt |-> IssueKeyText(SuggestionAt(p))]
JoinedKeyOf == [p \in InputSuggestionAt |-> JoinedKeyText(SuggestionAt(p))]
Returned(c) == c \in DOMAIN aggResults /\ ~aggResults[c].threw
\* The suggestions of equal key under keyOf stand in one entry of the map, the
\* groups in as many entries: the entry has the category, issue, suggestion and
\* priority of the group's first suggestion, the group's size as frequency, and
\* examples of the group only.
MergedBy(r, keyOf) ==
  /\ Len(r.improvementMap) = Cardinality({keyOf[p] : p \in InputSuggestionAt})
  /\ \A p \in InputSuggestionAt :
       LET group == {q \in InputSuggestionAt : keyOf[q] = keyOf[p]}
           first == CHOOSE q \in group : \A o \in group : o = q \/ VisitedBefore(q, o)
       IN \E k \in DOMAIN r.improvementMap :
            LET entry == r.improvementMap[k]
            IN /\ entry.suggestion.category = SuggestionAt(first).category
               /\ entry.suggestion.issue = SuggestionAt(first).issue
               /\ entry.suggestion.suggestion = SuggestionAt(first).suggestion
               /\ entry.suggestion.priority = SuggestionAt(first).priority
               /\ entry.frequency = Cardinality(group)
               /\ \A x \in DOMAIN entry.suggestion.examples :
                    \E q \in group : \E y \in DOMAIN SuggestionAt(q).examples :
                      SuggestionAt(q).examples[y] = entry.suggestion.examples[x]

\* C21 (amended): two improvement suggestions are merged into one entry
\* exactly when their category followed by "-" and the first 50 characters of
\* their issue are equal strings; the first occurrence supplies the entry's
\* issue, suggestion and priority, and later occurrences only increase its
\* frequency and contribute examples.
C21_MergedByIssueKey ==
  \A c \in DOMAIN aggResults : Returned(c) => MergedBy(aggResults[c], IssueKeyOf)

\* C21 witness: a call returned for an input in which two suggestions of
\* different issues were merged and two suggestions equal in the first 50
\* characters of category-issue were not.
C21_Witness ==
  /\ Returned(1)
  /\ \E p, q \in InputSuggestionAt :
       /\ IssueKeyOf[p] = IssueKeyOf[q]
       /\ SuggestionAt(p).issue # SuggestionAt(q).issue
  /\ \E p, q \in InputSuggestionAt :
       /\ JoinedKeyOf[p] = JoinedKeyOf[q]
       /\ IssueKeyOf[p] # IssueKeyOf[q]

\* C21 (as claimed): two suggestions are merged exactly when the first 50
\* characters of the string category-issue are equal.
C21_MergedByJoinedKey ==
  \A c \in DOMAIN aggResults : Returned(c) => MergedBy(aggResults[c], JoinedKeyOf)

\* The entry of the map that a returned suggestion comes from, and whether
\* suggestion a of frequency f ranks at or above suggestion b of frequency g.
EntryOf(r, item) ==
  CHOOSE k \in DOMAIN r.improvementMap :
    /\ r.improvementMap[k].suggestion.category = item.category
    /\ r.improvementMap[k].suggestion.issue = item.issue
PriorityRank(s) ==
  CASE s.priority = "high" -> 1
    [] s.priority = "medium" -> 2
    [] s.priority = "low" -> 3
RanksAtOrAbove(a, f, b, g) ==
  \/ PriorityRank(a) < PriorityRank(b)
  \/ PriorityRank(a) = PriorityRank(b) /\ f >= g

\* C22: topImprovements holds suggestions of the map, each once and at most
\* 10 of them, every high before every medium before every low and, within a
\* priority, in descending order of merged frequency; an entry is left out only
\* when 10 entries that rank at or above it are kept.
C22_TopImprovements ==
  \A c \in DOMAIN aggResults : Returned(c) =>
    LET r == aggResults[c]
        top == r.returned.topImprovements
        kept == {EntryOf(r, top[i]) : i \in DOMAIN top}
        FrequencyAt(i) == r.improvementMap[EntryOf(r, top[i])].frequency
    IN /\ Len(top) = Min(10, Len(r.improvementMap))
       /\ \A i \in DOMAIN top :
            /\ \E k \in DOMAIN r.improvementMap : r.improvementMap[k].suggestion = top[i]
            /\ \A j \in DOMAIN top : i < j =>
                 /\ EntryOf(r, top[i]) # EntryOf(r, top[j])
                 /\ RanksAtOrAbove(top[i], FrequencyAt(i), top[j], FrequencyAt(j))
       /\ \A k \in DOMAIN r.improvementMap : k \notin kept =>
            /\ Len(top) = 10
            /\ \A i \in DOMAIN top :
                 RanksAtOrAbove(top[i], FrequencyAt(i), r.improvementMap[k].suggestion,
                                r.improvementMap[k].frequency)

\* C22 witness: a call returned 10 of more than 10 merged suggestions, of all
\* three priorities, two of one priority with different frequencies, and a
\* suggestion seeded before a kept one was left out.
C22_Witness ==
  /\ Returned(1)
  /\ Len(aggResults[1].improvementMap) > 10
  /\ LET r == aggResults[1]
         top == r.returned.topImprovements
     IN /\ Len(top) = 10
        /\ {top[i].priority : i \in DOMAIN top} = {"high", "medium", "low"}
        /\ \E i, j \in DOMAIN top :
             /\ top[i].priority = top[j].priority
             /\ r.improvementMap[EntryOf(r, top[i])].frequency
                  > r.improvementMap[EntryOf(r, top[j])].frequency
        /\ \E k \in DOMAIN r.improvementMap : \E i \in DOMAIN top :
             /\ k < EntryOf(r, top[i])
             /\ \A j \in DOMAIN top : EntryOf(r, top[j]) # k

\* The input suggestions that share the key of a returned suggestion.
GroupOfItem(item) ==
  {p \in InputSuggestionAt : IssueKeyOf[p] = IssueKeyText(item)}
PairwiseDistinct(seq) == \A x, y \in DOMAIN seq : x # y => seq[x] # seq[y]

\* C29: a suggestion whose key occurs once in the input is returned in
\* topImprovements with its examples list as it was given (same elements, same
\* order), and every returned suggestion that stands for more than one input
\* suggestion has at most 3 examples, pairwise distinct.
C29_ExamplesCappedOnMerge ==
  \A c \in DOMAIN aggResults : Returned(c) =>
    LET top == aggResults[c].returned.topImprovements
    IN /\ \A p \in InputSuggestionAt :
            (/\ \A q \in InputSuggestionAt : IssueKeyOf[q] = IssueKeyOf[p] => q = p
             /\ Len(aggResults[c].improvementMap) <= 10)
              => \E i \in DOMAIN top : top[i] = SuggestionAt(p)
       /\ \A i \in DOMAIN top :
            IF Cardinality(GroupOfItem(top[i])) = 1
              THEN \A p \in GroupOfItem(top[i]) :
                     top[i].examples = SuggestionAt(p).examples
              ELSE /\ Len(top[i].examples) <= 3
                   /\ PairwiseDistinct(top[i].examples)

\* C29 witness: a call returned a suggestion given once with more than 3
\* examples, one of them twice, next to a merged suggestion whose examples
\* together were more than 3.
C29_Witness ==
  /\ Returned(1)
  /\ LET top == aggResults[1].returned.topImprovements
     IN /\ \E i \in DOMAIN top :
             /\ Cardinality(GroupOfItem(top[i])) = 1
             /\ Len(top[i].examples) > 3
             /\ ~PairwiseDistinct(top[i].examples)
        /\ \E i \in DOMAIN top :
             /\ Cardinality(GroupOfItem(top[i])) > 1
             /\ Len(top[i].examples) = 3
             /\ Cardinality(UNION {{SuggestionAt(p).examples[x] :
                                      x \in DOMAIN SuggestionAt(p).examples} :
                                   p \in GroupOfItem(top[i])}) > 3

\* ---- Claims about the key metrics of generateInsights ----
MetricNames ==
  <<"Total Conversations", "Active Users", "Resolution Rate", "Average Rating",
    "Error Rate", "Avg Session Duration">>
\* The six metric values of an Analytics, as fractions.
MetricValues(a) ==
  <<Fraction(a.totalConversations, 1), Fraction(a.uniqueUsers, 1), a.resolvedRate,
    a.averageRating, a.errorRate, a.averageSessionDuration>>
\* The trend of current against previous with a dead band of 5% of previous.
BandTrend(current, previous) ==
  IF current.num * previous.den * 100 > previous.num * current.den * 105 THEN "up"
  ELSE IF current.num * previous.den * 100 < previous.num * current.den * 95 THEN "down"
  ELSE "stable"
\* Metric i carries a percent-change string and the trend of its band.
CarriesChangeAndTrend(i) ==
  LET metric == insights.keyMetrics[i]
      current == MetricValues(analytics)[i]
      previous == MetricValues(previousAnalytics[1])[i]
  IN /\ "change" \in DOMAIN metric
     /\ (previous.num = 0) <=> (metric.change = [text |-> "+100%"])
     /\ "trend" \in DOMAIN metric
     /\ metric.trend = BandTrend(current, previous)

\* C23 (as claimed): the six key metrics are returned in the fixed order and,
\* when a previous Analytics is supplied, each of the six carries a
\* percent-change string ("+100%" when the previous value is 0) and the trend of
\* the 5% band around the previous value.
C23_KeyMetricsCarryTrend ==
  Reported =>
    /\ [i \in DOMAIN insights.keyMetrics |-> insights.keyMetrics[i].name] = MetricNames
    /\ previousAnalytics # <<>> => \A i \in 1..6 : CarriesChangeAndTrend(i)

\* ---- Claims about analyzeTrends ----
TrafficIncreaseReported ==
  \E x \in DOMAIN insights.trendsAnalysis :
    insights.trendsAnalysis[x].text = "Traffic increased this week"
\* The last 7 daily-trend entries and the entries before them, at most 7.
RecentDays == TakeLast(analytics.dailyTrend, 7)
PrecedingDays ==
  LET n == Len(analytics.dailyTrend)
  IN SubSeq(analytics.dailyTrend, Max(1, n - 13), n - 7)
DayCountSum(rows) == SumSeq([i \in DOMAIN rows |-> rows[i].count])

\* C24 (as claimed): the traffic-increase sentence is emitted only when at
\* least 8 daily-trend entries exist and the mean daily count of the last 7
\* exceeds the mean daily count of the entries preceding them (the preceding
\* 7) by more than 20%.
C24_TrafficIncreaseOnlyOnRise ==
  (Reported /\ TrafficIncreaseReported) =>
    /\ Len(analytics.dailyTrend) >= 8
    /\ DayCountSum(RecentDays) * Len(PrecedingDays) * 10
         > DayCountSum(PrecedingDays) * Len(RecentDays) * 12

\* ---- Claims about the breakdowns of analyzeLogsAggregation ----
\* The key each log carries for a breakdown, "" when it carries none.
CategoryKeys ==
  [i \in DOMAIN chatLogs |->
     IF "category" \in DOMAIN chatLogs[i] THEN chatLogs[i].category ELSE ""]
PlatformKeys ==
  [i \in DOMAIN chatLogs |->
     IF "platform" \in DOMAIN chatLogs[i] THEN chatLogs[i].platform ELSE ""]
VersionKeys ==
  [i \in DOMAIN chatLogs |->
     IF "metadata" \in DOMAIN chatLogs[i] /\ "appVersion" \in DOMAIN chatLogs[i].metadata
       THEN chatLogs[i].metadata.appVersion ELSE ""]
\* rows (of key, count, percentage) is the breakdown of the keys: one row per
\* distinct key with its count and its share of all logs, by count descending
\* and first occurrence ascending, all of them or the first most of them.
IsBreakdown(rows, keys, most) ==
  LET present == {keys[i] : i \in DOMAIN keys} \ {""}
      CountOf(k) == Cardinality({i \in DOMAIN keys : keys[i] = k})
      FirstOf(k) == CHOOSE i \in DOMAIN keys :
                      keys[i] = k /\ \A j \in DOMAIN keys : keys[j] = k => i <= j
      Precedes(k, l) ==
        CountOf(k) > CountOf(l) \/ (CountOf(k) = CountOf(l) /\ FirstOf(k) < FirstOf(l))
  IN /\ Len(rows) = Min(most, Cardinality(present))
     /\ \A x \in DOMAIN rows :
          /\ rows[x].key \in present
          /\ rows[x].count = CountOf(rows[x].key)
          /\ FractionIs(rows[x].percentage, rows[x].count * 100, Len(keys))
          /\ \A y \in DOMAIN rows : x < y => Precedes(rows[x].key, rows[y].key)
          /\ \A k \in present :
               (\A y \in DOMAIN rows : rows[y].key # k) => Precedes(rows[x].key, k)

\* C25: the category, platform and app-version breakdowns have one entry per
\* distinct key of the logs, with count the number of logs carrying the key
\* and percentage count / number of logs * 100, sorted by count descending,
\* keys of equal count in the order of their first log; categories and app
\* versions are cut to the first 10 entries, platforms are not cut.
C25_Breakdowns ==
  Analysed =>
    /\ IsBreakdown([x \in DOMAIN analytics.topCategories |->
                      [key |-> analytics.topCategories[x].category,
                       count |-> analytics.topCategories[x].count,
                       percentage |-> analytics.topCategories[x].percentage]],
                   CategoryKeys, 10)
    /\ IsBreakdown([x \in DOMAIN analytics.platformDistribution |->
                      [key |-> analytics.platformDistribution[x].platform,
                       count |-> analytics.platformDistribution[x].count,
                       percentage |-> analytics.platformDistribution[x].percentage]],
                   PlatformKeys, Len(chatLogs))
    /\ IsBreakdown([x \in DOMAIN analytics.appVersions |->
                      [key |-> analytics.appVersions[x].version,
                       count |-> analytics.appVersions[x].count,
                       percentage |-> analytics.appVersions[x].percentage]],
                   VersionKeys, 10)

\* C25 witness: logs with more than 10 categories, app versions and platforms,
\* some without any, have been analysed: 10 categories and versions are kept,
\* two of equal count, and every platform.
C25_Witness ==
  /\ Analysed
  /\ Cardinality({CategoryKeys[i] : i \in DOMAIN chatLogs} \ {""}) > 10
  /\ Cardinality({VersionKeys[i] : i \in DOMAIN chatLogs} \ {""}) > 10
  /\ Len(analytics.topCategories) = 10
  /\ Len(analytics.appVersions) = 10
  /\ Len(analytics.platformDistribution) > 10
  /\ analytics.topCategories[1].count > analytics.topCategories[10].count
  /\ analytics.topCategories[9].count = analytics.topCategories[10].count

\* Logs of which one carries no category have been analysed, with two
\* categories found.
C25_WitnessDenominator ==
  /\ Analysed
  /\ Len(analytics.topCategories) = 2
  /\ \E i \in DOMAIN chatLogs : CategoryKeys[i] = ""

\* ---- Claims about the traffic alert of generateAlerts ----
TrafficAlerts == SelectSeq(insights.alerts, LAMBDA x : x.metric = "trafficPeak")
\* The hours whose count is above 15% of totalConversations, and the hours of
\* the highest count.
CrowdedHours ==
  {h \in DOMAIN analytics.hourlyDistribution :
     analytics.hourlyDistribution[h].count * 100 > analytics.totalConversations * 15}
BusiestHours ==
  {h \in DOMAIN analytics.hourlyDistribution :
     \A g \in DOMAIN analytics.hourlyDistribution :
       analytics.hourlyDistribution[g].count <= analytics.hourlyDistribution[h].count}

\* C26: the alerts hold the traffic-concentration alert, once and of low
\* severity, exactly when some hour's count exceeds 15% of totalConversations;
\* it names the lowest of the hours that have the highest count and reports
\* that count; with totalConversations 0 there is none.
C26_TrafficPeakAlert ==
  Reported =>
    /\ Len(TrafficAlerts) = (IF CrowdedHours # {} THEN 1 ELSE 0)
    /\ analytics.totalConversations = 0 => TrafficAlerts = <<>>
    /\ \A x \in DOMAIN TrafficAlerts :
         \E h \in BusiestHours :
           /\ \A g \in BusiestHours : h <= g
           /\ TrafficAlerts[x].severity = "low"
           /\ TrafficAlerts[x].shown = <<analytics.hourlyDistribution[h].hour,
                                         analytics.hourlyDistribution[h].count>>
           /\ analytics.hourlyDistribution[h].hour = h - 1
           /\ TrafficAlerts[x].value = analytics.hourlyDistribution[h].count

\* C26 witness: a report on logs of which the first falls in a later hour than
\* the second, both hours sharing the highest count, has the alert.
C26_Witness ==
  /\ Reported
  /\ Len(TrafficAlerts) = 1
  /\ Cardinality(BusiestHours) >= 2
  /\ Len(chatLogs) >= 2
  /\ "timestamp" \in DOMAIN chatLogs[1]
  /\ "timestamp" \in DOMAIN chatLogs[2]
  /\ chatLogs[1].timestamp.hour > chatLogs[2].timestamp.hour

\* A report on logs none of whose hours is above 15% has no traffic alert.
C26_WitnessQuiet ==
  /\ Reported
  /\ analytics.totalConversations > 0
  /\ \E h \in DOMAIN analytics.hourlyDistribution : analytics.hourlyDistribution[h].count > 0
  /\ TrafficAlerts = <<>>

\* C30: for the empty log list, generateInsights applied to the result of
\* analyzeLogsAggregation raises exactly one alert, the high-severity
\* low-resolution-rate alert with value 0.
C30_EmptyLogsAlert ==
  (Reported /\ chatLogs = <<>>) =>
    /\ Len(insights.alerts) = 1
    /\ insights.alerts[1].metric = "resolvedRate"
    /\ insights.alerts[1].severity = "high"
    /\ insights.alerts[1].message = "Low resolution rate"
    /\ FractionIs(insights.alerts[1].value, 0, 1)

\* C30 witness: the report on the empty log list holds an alert.
C30_Witness ==
  /\ Reported
  /\ chatLogs = <<>>
  /\ analytics.totalConversations = 0
  /\ insights.alerts # <<>>

\* ---- Claims about runAnalysis ----
\* C28: every log fetchLogs returns has error = false and no rating; the
\* Analytics of the fetched logs has errorRate 0 and averageRating 0, and the
\* report on it holds neither the error-rate alert nor the low-rating alert.
C28_FetchedLogsRaiseNoErrorOrRatingAlert ==
  /\ logsPc = "resolved" =>
       \A i \in DOMAIN logs : logs[i].error = FALSE /\ "rating" \notin DOMAIN logs[i]
  /\ Analysed =>
       /\ chatLogs = logs
       /\ FractionIs(analytics.errorRate, 0, 1)
       /\ FractionIs(analytics.averageRating, 0, 1)
  /\ Reported =>
       \A x \in DOMAIN insights.alerts :
         insights.alerts[x].metric \notin {"errorRate", "averageRating"}

\* C28 witness: the report on the logs fetched from two sessions with
\* messages holds an alert.
C28_Witness ==
  /\ Reported
  /\ logsPc = "resolved"
  /\ Len(storeSessions) = 2
  /\ Len(chatLogs) >= 3
  /\ insights.alerts # <<>>

\* ---- Claims about the list analyzeSessions returns ----
\* C27: when analyzeSessions has resolved, its list holds one analysis per
\* input session in input order, the i-th carrying the id of the i-th session,
\* whatever the order in which the completion calls returned; for the empty
\* list it has resolved with the empty list, no completion call was issued and
\* no pause was taken.
C27_AnalysesInInputOrder ==
  asPc = "resolved" =>
    /\ Len(analyses) = Len(sessions)
    /\ \A i \in DOMAIN sessions : analyses[i] = sessions[i]
    /\ sessions = <<>> =>
         /\ analyses = <<>>
         /\ timersFired = 0
         /\ \A s \in SessionIds : sessState[s] = "idle" /\ pendingCalls[s] = 0

\* C27 witness: analyzeSessions has resolved for two batches of sessions whose
\* ids descend.
C27_Witness ==
  /\ asPc = "resolved"
  /\ Len(sessions) = 4
  /\ sessions[1] > sessions[2]
  /\ timersFired = 1
  /\ Len(analyses) = 4

\* analyzeSessions has resolved for the empty list.
C27_WitnessEmpty ==
  /\ asPc = "resolved"
  /\ sessions = <<>>
  /\ analyses = <<>>

====
